---- MODULE Spec2Model ----
(***************************************************************************)
(* ClawTrap honeypot: session registry, WebSocket admission and message    *)
(* handling, log write queue, canary report queue, agent classifier and    *)
(* injection detector.                                                     *)
(*                                                                         *)
(* Each component has its own specification over the shared variables:     *)
(*   SpecSession   SessionManager driven through its public methods        *)
(*   SpecGateway   createWebSocketGateway: connection admission, close     *)
(*   SpecChat      ws.on('message') handlers of admitted connections       *)
(*   SpecAdmission  connections beyond the rate limit, with chat messages  *)
(*   SpecLog       LoggerFactory.writeToBackend / flush                    *)
(*   SpecReporter  CanaryReporter.report / flush / close                   *)
(*   SpecClassify  AgentClassifier.classify on one request                 *)
(*   SpecHistory   AgentClassifier timing histories of two identities      *)
(*   SpecTiming    AgentClassifier timing analysis of one identity         *)
(*   SpecIdentities  the identities the running service makes it track     *)
(*   SpecDetect    InjectionDetector.detect on one input                   *)
(*   SpecLoad      InjectionDetector construction from rule files          *)
(*   SpecCanary    CanaryGenerator: one token and the checks of its value  *)
(*   SpecIsolation  two CanaryGenerators with different instance ids       *)
(*   SpecLeak      a minted value sent back in chat messages               *)
(*   SpecAgent     FakeAgent.generateResponse on one message               *)
(*   SpecSweep     the age sweep while connections receive messages        *)
(*   SpecS3        S3Backend writes, flushes and uploads                   *)
(*   SpecOrder     LoggerFactory with the order of its calls recorded      *)
(* The handlers' logger calls are not awaited and reach the write queue    *)
(* through LoggerFactory.writeToBackend only; SpecLog drives that method   *)
(* with every level and with or without source_ip.  In the other           *)
(* specifications LoggerFactory is as constructed (backend null,           *)
(* index.ts:60), where writeToBackend returns at index.ts:120.             *)
(***************************************************************************)
EXTENDS Integers, Sequences, FiniteSets, TLC

\* ------------------------------------------------------------------------
\* Bounds of the model
\* ------------------------------------------------------------------------
\* Date.now() advances in steps of TickMs, up to MaxNow.
TickMs == 30000
MaxNow == 60000
\* The two values of opts.maxSessions explored (session.ts:106):
\* one below 10, where floor(maxSessions * 0.1) is 0, and one where it is 1.
SmallMaxSessions == 3
LargeMaxSessions == 10
\* opts.maxSessionAgeMs explored (session.ts:107).
SessionAgeMs == 30000
\* Session ids handed to createSession are 1..MaxIds: enough to fill the
\* registry and create one more.
MaxIds == LargeMaxSessions + 1

\* Source addresses of connecting clients.
IPs == {"ip1", "ip2"}
\* MAX_CONNECTIONS_PER_IP (gateway.ts:19 sets 20), scaled down.
MAX_CONNECTIONS_PER_IP == 2
\* Connection attempts made on the gateway in SpecGateway.
MaxConns == 5

\* Connections opened, messages received on them and words per generated
\* response in SpecChat.
MaxChatConns == 2
\* Connection attempts from one address in SpecAdmission: more than
\* MAX_CONNECTIONS_PER_IP.
MaxAdmitConns == 3
MaxMsgs == 2
WordsPerReply == 2
\* AgentClassifier.maxHistoryPerIp (agent-classifier.ts:86 sets 50), scaled
\* down.
maxHistoryPerIp == 5
\* recordTiming calls made in the classifier specifications: enough to fill
\* one history, push one sample out and start a second history.
MaxRecorded == maxHistoryPerIp + 2
\* Table entries one user-agent string matches in SpecClassify.
MaxUaMatches == 2
\* Connections accepted in SpecIdentities.
MaxIdentityConns == 2
\* Rules in the external rule files, and rules one input matches.
MaxRules == 2
\* Base64 encodings nested in one input of detect.
MaxNesting == 2

\* CanaryReporter.report calls made in SpecReporter.  The reporter has no
\* queue limit of its own; ReportQueueLimit is the maximum its queue length
\* is compared with.
ReportQueueLimit == 3
MaxReports == ReportQueueLimit + 1

\* MAX_QUEUE_SIZE (logging/index.ts:57 sets 50_000), scaled down to the
\* smallest value whose tenth is not 0.
MAX_QUEUE_SIZE == 10
\* Entries built by writeToBackend in SpecLog: enough to fill the queue and
\* queue one more.
MaxLogs == MAX_QUEUE_SIZE + 1
\* writeToBackend calls suspended on enricher.enrich at one time, and
\* flushes in flight at one time.
MaxPending == 1
MaxFlights == 1

\* CONNECTION_WINDOW_MS, gateway.ts:20
CONNECTION_WINDOW_MS == 60000

\* The bytes of random key material in a fake SSH key (200 in the code,
\* part_003:101).
KeyBytes == 12

\* Connections, messages and reports in SpecLeak.
MaxLeaks == 1

\* Words of a message in SpecAgent.
MaxWords == 2

\* Connections opened in SpecSweep.
MaxSweepConns == 2

\* S3Backend.bufferSize (1000 in the code), the writes of SpecS3 and the
\* uploads it starts.
bufferSize == 2
MaxS3Writes == 3
MaxUploads == 2

\* S3Backend.flushIntervalMs
flushIntervalMs == 60000

\* writeToBackend calls of SpecOrder.
MaxOrderLogs == 3

VARIABLES
  now,              \* Date.now()
  sessions,         \* SessionManager.sessions: Map in insertion order
  maxSessions,      \* SessionManager.maxSessions
  maxSessionAgeMs,  \* SessionManager.maxSessionAgeMs
  nextId,           \* number of distinct session ids handed out so far
  reused,           \* a createSession call has passed an id used before
  removeCalled,     \* removeSession has been called
  removedIds,       \* history: ids that were in the registry and left it
  conns,            \* WebSocket connections, indexed by their sessionId
  connectionCounts, \* gateway.ts:30, per IP: {count, resetAt} or undefined
  admitLog,         \* history: per IP, the times of its admitted connections
  msgSeq,           \* messages received so far, over all connections
  handlers,         \* message handlers suspended at an await
  sent,             \* the frame last passed to ws.send and its connection
  replied,          \* history: messages whose reply has been sent completely
  arrived,          \* history: per connection, its messages in arrival order
  timingHistory,    \* AgentClassifier.timingHistory: Map from IP, in insertion order
  enabled,          \* CanaryConfig.enabled
  reportQueue,      \* CanaryReporter.reportQueue
  reportSeq,        \* reports built by CanaryReporter.report so far
  callback_url,     \* CanaryConfig.callback_url is set
  reporterInterval, \* CanaryReporter.flushInterval is running
  reportFlights,    \* batches handed to sendToCallback, request in flight
  batched,          \* history: the serials of the reports handed to sendToCallback, batch after batch
  reported,         \* history: the event types passed to report(), in call order
  lastFailed,       \* history: the batch of the last failed delivery
  backend,          \* LoggerFactory.backend is set
  enricher,         \* LoggerFactory.enricher is set
  loggerInterval,   \* LoggerFactory.flushInterval is running
  writeQueue,       \* LoggerFactory.writeQueue
  droppedEntries,   \* LoggerFactory.droppedEntries
  logSeq,           \* log entries built so far (index.ts:140)
  pendingEnrich,    \* per level, the calls suspended on enricher.enrich
  waiting,          \* history: the calls suspended on enricher.enrich, by the serial of the call and its level
  callOf,           \* history: for each entry built, the serial of the call that built it
  handed,           \* history: the latest call an entry of which was passed to backend.write, and whether an entry of an earlier call was passed after it
  logFlights,       \* flushes in flight: the entries each has still to write
  classified,       \* the options and the result of the classify call of the classifier specifications
  recorded,         \* history: per IP, every sample passed to recordTiming, in call order
  ruleFiles,        \* the rules read from the files of config.patterns_dir, in file order
  patterns,         \* InjectionDetector.patterns
  compiledPatterns, \* InjectionDetector.compiledPatterns: the names that have a RegExp
  detection,        \* the input and the result of the detect call of the detector specifications
  generators,       \* the CanaryGenerators constructed: instanceId, the type and the token of its generate call, and what isCanaryToken and extractCanaryId returned for the value
  buffer,           \* S3Backend.buffer: the entries, by the serial of their write call
  lastFlush,        \* S3Backend.lastFlush
  uploads,          \* the flush calls of the S3Backend suspended in gzip or client.send, each with its entries
  s3Writes,         \* write calls made on the S3Backend
  s3Flushes,        \* uploads started by the S3Backend
  delivered,        \* history: the entries of the uploads that succeeded
  agentCall,        \* the generateResponse call of SpecAgent and the reply it returned
  lastOp            \* history: the operation that produced this state

sessionVars == <<sessions, maxSessions, maxSessionAgeMs, nextId, reused, removeCalled, removedIds>>
gatewayVars == <<conns, connectionCounts, admitLog>>
chatVars == <<msgSeq, handlers, sent, replied, arrived, timingHistory>>
reporterVars == <<enabled, reportQueue, reportSeq, callback_url, reporterInterval,
                  reportFlights, reported, lastFailed, batched>>
loggerVars == <<backend, enricher, loggerInterval, writeQueue, droppedEntries,
                logSeq, pendingEnrich, logFlights>>
classifierVars == <<classified, recorded>>
detectorVars == <<ruleFiles, patterns, compiledPatterns, detection>>
canaryVars == <<generators>>
agentVars == <<agentCall>>
orderVars == <<waiting, callOf, handed>>
s3Vars == <<buffer, lastFlush, uploads, s3Writes, s3Flushes, delivered>>
vars == <<now, sessionVars, gatewayVars, chatVars, reporterVars, loggerVars, classifierVars, detectorVars, canaryVars, agentVars, s3Vars, orderVars, lastOp>>

\* ------------------------------------------------------------------------
\* Helpers
\* ------------------------------------------------------------------------
Min(a, b) == IF a <= b THEN a ELSE b

Range(s) == {s[i] : i \in DOMAIN s}

\* The subsets of S of at most k elements
RECURSIVE SubsetsUpTo(_, _)
SubsetsUpTo(S, k) ==
  IF k = 0 THEN {{}}
  ELSE LET smaller == SubsetsUpTo(S, k - 1)
       IN  smaller \cup {T \cup {x} : T \in smaller, x \in S}

\* Math.floor(n * 0.1) for a non-negative integer n: 0.1 as a double is just
\* above 1/10, so the product never falls below the integer n/10 rounds to.
FloorTenth(n) == n \div 10

\* ------------------------------------------------------------------------
\* Strings
\* ------------------------------------------------------------------------
\* A string is the sequence of its characters.  The empty string, null and
\* undefined are all <<>>: the code tests them with !s only.

\* The printable ASCII characters in code order, from code 32 on (the
\* backtick, which no text of the model holds, by its name)
AsciiChars ==
  <<" ", "!", "\"", "#", "$", "%", "&", "'", "(", ")", "*", "+", ",", "-",
    ".", "/", "0", "1", "2", "3", "4", "5", "6", "7", "8", "9", ":", ";",
    "<", "=", ">", "?", "@", "A", "B", "C", "D", "E", "F", "G", "H", "I",
    "J", "K", "L", "M", "N", "O", "P", "Q", "R", "S", "T", "U", "V", "W",
    "X", "Y", "Z", "[", "\\", "]", "^", "_", "backtick", "a", "b", "c", "d", "e",
    "f", "g", "h", "i", "j", "k", "l", "m", "n", "o", "p", "q", "r", "s",
    "t", "u", "v", "w", "x", "y", "z", "{", "|", "}", "~">>

\* String.prototype.charCodeAt for a printable ASCII character
CharCodes == [c \in Range(AsciiChars) |-> 31 + (CHOOSE i \in DOMAIN AsciiChars : AsciiChars[i] = c)]
CharCode(c) == CharCodes[c]

\* String.fromCharCode
FromCharCode(n) == AsciiChars[n - 31]

UpperChars == {FromCharCode(n) : n \in 65..90}
LowerChars == {FromCharCode(n) : n \in 97..122}
DigitChars == {FromCharCode(n) : n \in 48..57}
IsUpper(c) == c \in UpperChars
IsLower(c) == c \in LowerChars
IsDigit(c) == c \in DigitChars
\* [a-zA-Z0-9]
AlnumChars == UpperChars \cup LowerChars \cup DigitChars
IsAlnum(c) == c \in AlnumChars

\* String.prototype.toLowerCase and toUpperCase
LowerOf == [c \in UpperChars |-> FromCharCode(CharCode(c) + 32)]
UpperOf == [c \in LowerChars |-> FromCharCode(CharCode(c) - 32)]
toLowerCase(s) == [i \in DOMAIN s |-> IF IsUpper(s[i]) THEN LowerOf[s[i]] ELSE s[i]]
toUpperCase(s) == [i \in DOMAIN s |-> IF IsLower(s[i]) THEN UpperOf[s[i]] ELSE s[i]]

\* String.prototype.substring(from, to) with 0 <= from <= to, positions
\* counted from 0
substring(s, from, to) == SubSeq(s, from + 1, Min(to, Len(s)))

\* The positions (from 1) at which t occurs in s
Occurrences(s, t) ==
  {i \in 1..(Len(s) - Len(t) + 1) : SubSeq(s, i, i + Len(t) - 1) = t}

\* String.prototype.includes
includes(s, t) == Occurrences(s, t) # {}

\* The last position of the longest run of characters satisfying Ok that
\* starts at position from (from - 1 when the run is empty)
RunEnd(s, from, Ok(_)) ==
  CHOOSE e \in (from - 1)..Len(s) :
    /\ \A k \in from..e : Ok(s[k])
    /\ e = Len(s) \/ ~Ok(s[e + 1])

\* The least element of a non-empty set of numbers
First(S) == CHOOSE i \in S : \A j \in S : i <= j

\* Number.prototype.toString for a natural number
RECURSIVE ToDigits(_)
ToDigits(n) ==
  IF n < 10 THEN <<FromCharCode(48 + n)>>
  ELSE ToDigits(n \div 10) \o <<FromCharCode(48 + (n % 10))>>

\* The base64 alphabet; base64url has - and _ for + and /
Base64Alphabet ==
  <<"A", "B", "C", "D", "E", "F", "G", "H", "I", "J", "K", "L", "M", "N",
    "O", "P", "Q", "R", "S", "T", "U", "V", "W", "X", "Y", "Z", "a", "b",
    "c", "d", "e", "f", "g", "h", "i", "j", "k", "l", "m", "n", "o", "p",
    "q", "r", "s", "t", "u", "v", "w", "x", "y", "z", "0", "1", "2", "3",
    "4", "5", "6", "7", "8", "9", "+", "/">>

Base64Char(n, url) ==
  IF url /\ n = 62 THEN "-" ELSE IF url /\ n = 63 THEN "_" ELSE Base64Alphabet[n + 1]

\* Buffer.prototype.toString('base64' or 'base64url') of a sequence of
\* bytes: three bytes give four characters; 'base64' pads with =
RECURSIVE Base64(_, _)
Base64(bytes, url) ==
  IF bytes = <<>> THEN <<>>
  ELSE LET b1 == bytes[1]
           b2 == IF Len(bytes) >= 2 THEN bytes[2] ELSE 0
           b3 == IF Len(bytes) >= 3 THEN bytes[3] ELSE 0
           c1 == Base64Char(b1 \div 4, url)
           c2 == Base64Char((b1 % 4) * 16 + (b2 \div 16), url)
           c3 == Base64Char((b2 % 16) * 4 + (b3 \div 64), url)
           c4 == Base64Char(b3 % 64, url)
       IN  CASE Len(bytes) = 1 -> <<c1, c2>> \o (IF url THEN <<>> ELSE <<"=", "=">>)
             [] Len(bytes) = 2 -> <<c1, c2, c3>> \o (IF url THEN <<>> ELSE <<"=">>)
             [] OTHER -> <<c1, c2, c3, c4>> \o Base64(SubSeq(bytes, 4, Len(bytes)), url)

\* Buffer.from(s): the bytes of an ASCII string
Bytes(s) == [i \in DOMAIN s |-> CharCode(s[i])]

\* Buffer.prototype.toString('hex')
HexDigits == <<"0", "1", "2", "3", "4", "5", "6", "7", "8", "9", "a", "b", "c", "d", "e", "f">>
RECURSIVE Hex(_)
Hex(bytes) ==
  IF bytes = <<>> THEN <<>>
  ELSE <<HexDigits[(bytes[1] \div 16) + 1], HexDigits[(bytes[1] % 16) + 1]>> \o Hex(Tail(bytes))

\* ------------------------------------------------------------------------
\* CanaryGenerator
\* ------------------------------------------------------------------------
CanaryTokenType ==
  {"openai_api_key", "anthropic_api_key", "aws_access_key", "aws_secret_key",
   "github_token", "slack_token", "telegram_token", "database_url", "ssh_key",
   "kubernetes_token", "generic_api_key"}

\* The outcomes of crypto.randomBytes(n) explored: every byte 0x00, every
\* byte 0xab, and the bytes whose base64 text begins with clawtrap
ClawtrapBytes == <<114, 86, 176, 182, 182, 169>>
randomBytes(n) ==
  {[i \in 1..n |-> 0], [i \in 1..n |-> 171],
   [i \in 1..n |-> IF i <= Len(ClawtrapBytes) THEN ClawtrapBytes[i] ELSE 0]}

\* uuidv4().replace(/-/g, '').substring(0, 12): twelve random hex digits
Uuids == {Hex(bytes) : bytes \in randomBytes(6)}

\* Math.floor(Math.random() * 9000000000) + 1000000000, in decimal: the
\* least and the greatest outcome
TelegramNumbers ==
  {<<"1", "0", "0", "0", "0", "0", "0", "0", "0", "0">>,
   <<"9", "9", "9", "9", "9", "9", "9", "9", "9", "9">>}

\* this.instanceId.replace(/[^a-zA-Z0-9]/g, '').substring(0, 8)
instancePart(instanceId) == substring(SelectSeq(instanceId, IsAlnum), 0, 8)

\* The lines of generateFakeSSHKey joined by \n: a line break after every
\* 70 characters but the last
joinLines(content) ==
  [i \in 1..(Len(content) + ((Len(content) - 1) \div 70)) |->
     IF i % 71 = 0 THEN "\n" ELSE content[i - (i \div 71)]]

generateFakeSSHKey(part, keyBytes) ==
  LET header == <<"-", "-", "-", "-", "-", "B", "E", "G", "I", "N", " ", "O", "P", "E", "N", "S",
      "S", "H", " ", "P", "R", "I", "V", "A", "T", "E", " ", "K", "E", "Y", "-", "-", "-", "-",
      "-">>
      footer == <<"-", "-", "-", "-", "-", "E", "N", "D", " ", "O", "P", "E", "N", "S", "S", "H",
          " ", "P", "R", "I", "V", "A", "T", "E", " ", "K", "E", "Y", "-", "-", "-", "-", "-">>
      canaryMarker == Base64(Bytes(<<"C", "L", "A", "W", "T", "R", "A", "P",
          ":">> \o part \o <<":">> \o ToDigits(now)), FALSE)
      fakeKeyContent == Base64(keyBytes, FALSE)
      midPoint == Len(fakeKeyContent) \div 2
      modifiedContent == substring(fakeKeyContent, 0, midPoint) \o canaryMarker
                           \o substring(fakeKeyContent, midPoint, Len(fakeKeyContent))
  IN  header \o <<"\n">> \o joinLines(modifiedContent) \o <<"\n">> \o footer

\* JSON.stringify of the payload of the kubernetes token
kubernetesPayload(part) ==
  <<"{", "\"", "i", "s", "s", "\"", ":", "\"", "k", "u", "b", "e", "r", "n", "e", "t", "e", "s",
      "/", "s", "e", "r", "v", "i", "c", "e", "a", "c", "c", "o", "u", "n", "t", "\"", ",", "\"",
      "s", "u", "b", "\"", ":", "\"", "s", "y", "s", "t", "e", "m", ":", "s", "e", "r", "v", "i",
      "c", "e", "a", "c", "c", "o", "u", "n", "t", ":", "d", "e", "f", "a", "u", "l", "t", ":", "c",
      "l", "a", "w", "t", "r", "a", "p", "-">>
    \o part
    \o <<"\"", ",", "\"", "a", "u", "d", "\"", ":", "[", "\"", "h", "t", "t", "p", "s", ":", "/",
        "/", "k", "u", "b", "e", "r", "n", "e", "t", "e", "s", ".", "d", "e", "f", "a", "u", "l",
        "t", ".", "s", "v", "c", "\"", "]", ",", "\"", "e", "x", "p", "\"", ":">>
    \o ToDigits((now \div 1000) + 31536000) \o <<",", "\"", "i", "a", "t", "\"",
        ":">> \o ToDigits(now \div 1000) \o <<"}">>

\* random is the outcome of randomBytes(16), keyBytes that of the
\* randomBytes call of generateFakeSSHKey, number that of Math.random.
\* The id generate passes is not used.
generateTokenValue(instanceId, type, id, random, keyBytes, number) ==
  LET randomPart == Hex(random)
      part == instancePart(instanceId)
  IN  CASE type = "openai_api_key" ->
             <<"s", "k", "-", "p", "r", "o", "j", "-", "c", "l", "a", "w", "t", "r", "a",
                 "p">> \o part \o substring(randomPart, 0, 32)
        [] type = "anthropic_api_key" ->
             <<"s", "k", "-", "a", "n", "t", "-", "a", "p", "i", "0", "3", "-", "c", "l", "a", "w",
                 "t", "r", "a", "p">> \o part \o substring(randomPart, 0, 40)
        [] type = "aws_access_key" ->
             <<"A", "K", "I", "A", "C", "L", "A", "W", "T", "R", "A",
                 "P">> \o toUpperCase(part) \o toUpperCase(substring(randomPart, 0, 8))
        [] type = "aws_secret_key" ->
             <<"c", "l", "a", "w", "t", "r", "a", "p", "_", "s", "e", "c", "r", "e", "t",
                 "_">> \o part \o <<"_">> \o randomPart
        [] type = "github_token" ->
             <<"g", "h", "p", "_", "c", "l", "a", "w", "t", "r", "a",
                 "p">> \o part \o substring(randomPart, 0, 24)
        [] type = "slack_token" ->
             <<"x", "o", "x", "b", "-", "c", "l", "a", "w", "t", "r", "a", "p",
                 "-">> \o part \o <<"-">> \o substring(randomPart, 0, 24)
        [] type = "telegram_token" ->
             number \o <<":", "c", "l", "a", "w", "t", "r", "a", "p",
                 "-">> \o part \o <<"-">> \o substring(randomPart, 0, 20)
        [] type = "database_url" ->
             <<"p", "o", "s", "t", "g", "r", "e", "s", "q", "l", ":", "/", "/", "a", "d", "m", "i",
                 "n", ":", "c", "l", "a", "w", "t", "r", "a", "p">> \o part \o substring(randomPart,
                 0, 16)
               \o <<"@", "d", "b", ".", "i", "n", "t", "e", "r", "n", "a", "l", ":", "5", "4", "3",
                   "2", "/", "o", "p", "e", "n", "c", "l", "a", "w">>
        [] type = "ssh_key" -> generateFakeSSHKey(part, keyBytes)
        [] type = "kubernetes_token" ->
             <<"e", "y", "J", "h", "b", "G", "c", "i", "O", "i", "J", "S", "U", "z", "I", "1", "N",
                 "i", "I", "s", "I", "m", "t", "p", "Z", "C", "I", "6", "I", "m", "N", "s", "Y",
                 "X", "d", "0", "c", "m", "F", "w", "L", "S", "R", "7", "a", "W", "5", "z", "d",
                 "G", "F", "u", "Y", "2", "V", "Q", "Y", "X", "J", "0", "f", "S", "J", "9">>
               \o <<".">> \o Base64(Bytes(kubernetesPayload(part)), TRUE) \o <<".">> \o randomPart
        [] OTHER ->
             <<"c", "l", "a", "w", "t", "r", "a", "p", "_">> \o part \o <<"_">> \o randomPart

\* The CanaryToken generate returns, without createdAt and metadata
generate(instanceId, type, id, random, keyBytes, number) ==
  [id |-> id, type |-> type, instanceId |-> instanceId,
   value |-> generateTokenValue(instanceId, type, id, random, keyBytes, number)]

\* /clawtrap([a-zA-Z0-9]{8})/i: the capture of the leftmost match, or <<>>
matchMarker(token) ==
  LET at == {i \in Occurrences(toLowerCase(token), <<"c", "l", "a", "w", "t", "r", "a", "p">>) :
               /\ i + 15 <= Len(token)
               /\ \A k \in (i + 8)..(i + 15) : IsAlnum(token[k])}
  IN  IF at = {} THEN <<>> ELSE SubSeq(token, First(at) + 8, First(at) + 15)

\* /CLAWTRAP:([^:]+):/
NotColon(c) == c # ":"
matchColons(token) ==
  LET at == {i \in Occurrences(token, <<"C", "L", "A", "W", "T", "R", "A", "P", ":">>) :
               LET e == RunEnd(token, i + 9, NotColon) IN e >= i + 9 /\ e < Len(token)}
  IN  IF at = {} THEN <<>>
      ELSE SubSeq(token, First(at) + 9, RunEnd(token, First(at) + 9, NotColon))

\* /clawtrap-([a-zA-Z0-9-]+)/i
IsAlnumOrDash(c) == IsAlnum(c) \/ c = "-"
matchDashed(token) ==
  LET at == {i \in Occurrences(toLowerCase(token), <<"c", "l", "a", "w", "t", "r", "a", "p",
      "-">>) :
               RunEnd(token, i + 9, IsAlnumOrDash) >= i + 9}
  IN  IF at = {} THEN <<>>
      ELSE SubSeq(token, First(at) + 9, RunEnd(token, First(at) + 9, IsAlnumOrDash))

\* The first pattern with a non-empty capture decides; <<>> is null
extractCanaryId(token) ==
  IF matchMarker(token) # <<>> THEN matchMarker(token)
  ELSE IF matchColons(token) # <<>> THEN matchColons(token)
  ELSE matchDashed(token)

isCanaryToken(token) ==
  \E indicator \in {<<"c", "l", "a", "w", "t", "r", "a", "p">>,
                     <<"C", "L", "A", "W", "T", "R", "A", "P">>,
                     <<"h", "o", "n", "e", "y", "p", "o", "t">>} :
    includes(toLowerCase(token), toLowerCase(indicator))

\* ------------------------------------------------------------------------
\* SessionManager (session.ts:99-190)
\* ------------------------------------------------------------------------
Ids(m) == {m[i].id : i \in DOMAIN m}

\* The value JavaScript returns for a missing key.
undefined == [undefined |-> TRUE]

\* Map.prototype.get
MapGet(m, id) == LET hit == {i \in DOMAIN m : m[i].id = id}
                 IN  IF hit = {} THEN undefined ELSE m[CHOOSE i \in hit : TRUE]

\* Map.prototype.set: an existing key keeps its position, a new key goes last.
MapSet(m, session) ==
  IF session.id \in Ids(m)
    THEN [i \in DOMAIN m |-> IF m[i].id = session.id THEN session ELSE m[i]]
    ELSE Append(m, session)

\* Map.prototype.delete
MapDelete(m, id) == SelectSeq(m, LAMBDA e : e.id # id)

\* [...entries].sort((a, b) => a.startedAt - b.startedAt): Array.prototype.sort
\* is stable, entries with equal startedAt keep their insertion order.
RECURSIVE SortByStartedAt(_)
SortByStartedAt(m) ==
  IF m = <<>> THEN <<>>
  ELSE LET least == CHOOSE i \in DOMAIN m :
                      \A j \in DOMAIN m :
                        \/ m[i].startedAt < m[j].startedAt
                        \/ (m[i].startedAt = m[j].startedAt /\ i <= j)
           rest  == [k \in 1..(Len(m) - 1) |-> IF k < least THEN m[k] ELSE m[k + 1]]
       IN  <<m[least]>> \o SortByStartedAt(rest)

\* evictOldest with the comparator reversed: the newest sessions go first.
evictNewest(m, count) ==
  LET sorted  == SortByStartedAt(m)
      victims == {sorted[Len(sorted) + 1 - i].id : i \in 1..Min(count, Len(sorted))}
  IN  SelectSeq(m, LAMBDA e : e.id \notin victims)

\* evictOldest(count), session.ts:182-189
evictOldest(m, count) ==
  LET sorted  == SortByStartedAt(m)
      victims == {sorted[i].id : i \in 1..Min(count, Len(sorted))}
  IN  SelectSeq(m, LAMBDA e : e.id \notin victims)

NewSession(id, clientIp) ==
  [id |-> id, clientIp |-> clientIp, startedAt |-> now,
   messageCount |-> 0, detectedAttacks |-> <<>>]

\* createSession storing the session under a neighbouring key.
createSessionWrongKey(m, id, clientIp) ==
  LET kept == IF Len(m) >= maxSessions
                THEN evictOldest(m, FloorTenth(maxSessions))
                ELSE m
  IN  MapSet(kept, NewSession(IF id > 1 THEN id - 1 ELSE id, clientIp))

\* createSession(id, clientIp), session.ts:114-131: the registry afterwards
createSession(m, id, clientIp) ==
  LET kept == IF Len(m) >= maxSessions
                THEN evictOldest(m, FloorTenth(maxSessions))
                ELSE m
  IN  MapSet(kept, NewSession(id, clientIp))

\* getSession(id), session.ts:133-135
getSession(id) == MapGet(sessions, id)

\* cleanupOldSessions removing the sessions that have just reached the age
cleanupOldSessionsAtAge(m, maxAgeMs) ==
  SelectSeq(m, LAMBDA e : ~(now - e.startedAt >= maxAgeMs))

\* cleanupOldSessions(maxAgeMs), session.ts:161-173: the registry afterwards
cleanupOldSessions(m, maxAgeMs) ==
  SelectSeq(m, LAMBDA e : ~(now - e.startedAt > maxAgeMs))

\* ids that leave the registry in this step
Departed == Ids(sessions) \ Ids(sessions')

\* new SessionManager(opts) with opts.maxSessions drawn from sizes
InitSession(sizes) ==
  /\ sessions = <<>>
  /\ maxSessions \in sizes
  /\ maxSessionAgeMs = SessionAgeMs
  /\ nextId = 0
  /\ reused = FALSE
  /\ removeCalled = FALSE
  /\ removedIds = {}

InitGateway ==
  /\ conns = <<>>
  /\ connectionCounts = [ip \in IPs |-> undefined]
  /\ admitLog = [ip \in IPs |-> <<>>]

\* A frame passed to sendMessage: m is the message it answers (0: none), i
\* the position of its word in the response and done whether it ends it.
Frame(type, m, i, done) == [type |-> type, m |-> m, i |-> i, done |-> done]

\* No frame has been sent yet.
NoFrame == Frame("none", 0, 0, FALSE)

InitChat ==
  /\ msgSeq = 0
  /\ handlers = {}
  /\ sent = [c |-> 0, frame |-> NoFrame]
  /\ replied = {}
  /\ arrived = <<>>
  /\ timingHistory = <<>>

\* new CanaryReporter(config), gateway.ts:433-443, with config.enabled and
\* config.callback_url drawn from switches
InitReporter(switches) ==
  /\ enabled \in switches
  /\ callback_url \in switches
  /\ reportQueue = <<>>
  /\ reportSeq = 0
  /\ reporterInterval = enabled
  /\ reportFlights = {}
  /\ reported = <<>>
  /\ batched = <<>>
  /\ lastFailed = <<>>

\* The static fields of LoggerFactory, logging/index.ts:60-67
InitLogger ==
  /\ backend = FALSE
  /\ enricher = FALSE
  /\ loggerInterval = FALSE
  /\ writeQueue = <<>>
  /\ droppedEntries = 0
  /\ logSeq = 0
  /\ pendingEnrich = [level \in {"info", "error"} |-> 0]
  /\ logFlights = {}
  /\ waiting = {}
  /\ callOf = <<>>
  /\ handed = [last |-> 0, late |-> FALSE]

\* ------------------------------------------------------------------------
\* InjectionDetector (llm/injection-detector.ts)
\* ------------------------------------------------------------------------
\* Confidence is counted in hundredths.

\* A DetectionPattern, by what the detector reads from it; compiles tells
\* whether new RegExp(pattern, flags) succeeds.  Names are taken to be
\* distinct, types and subtypes to hold no ':'.
Rule(name, type, subtype, confidence, compiles) ==
  [name |-> name, type |-> type, subtype |-> subtype, confidence |-> confidence,
   compiles |-> compiles]

\* loadBuiltInPatterns, injection-detector.ts:83-284
BuiltInPatterns == <<
  Rule("system_prompt_extraction", "prompt_injection", "system_prompt_extraction", 90, TRUE),
  Rule("instruction_override", "prompt_injection", "instruction_override", 85, TRUE),
  Rule("role_manipulation", "prompt_injection", "role_manipulation", 80, TRUE),
  Rule("delimiter_injection", "prompt_injection", "delimiter_injection", 95, TRUE),
  Rule("context_manipulation", "prompt_injection", "context_manipulation", 75, TRUE),
  Rule("output_format_injection", "prompt_injection", "output_format_injection", 70, TRUE),
  Rule("dan_jailbreak", "jailbreak", "DAN_variants", 95, TRUE),
  Rule("developer_mode", "jailbreak", "developer_mode", 90, TRUE),
  Rule("evil_persona", "jailbreak", "character_roleplay", 85, TRUE),
  Rule("hypothetical_framing", "jailbreak", "hypothetical_framing", 60, TRUE),
  Rule("base64_encoding", "jailbreak", "base64_encoding", 80, TRUE),
  Rule("grandma_exploit", "jailbreak", "character_roleplay", 90, TRUE),
  Rule("code_execution_request", "tool_abuse", "arbitrary_code_execution", 80, TRUE),
  Rule("file_system_access", "tool_abuse", "file_system_access", 75, TRUE),
  Rule("network_request", "tool_abuse", "network_requests", 65, TRUE),
  Rule("data_exfiltration", "tool_abuse", "data_exfiltration", 85, TRUE),
  Rule("credential_access", "tool_abuse", "credential_access", 70, TRUE),
  Rule("agent_hijacking", "agent_manipulation", "multi_agent_hijacking", 75, TRUE),
  Rule("workspace_escape", "agent_manipulation", "workspace_escape", 85, TRUE),
  Rule("permission_escalation", "agent_manipulation", "permission_escalation", 80, TRUE),
  Rule("indirect_via_content", "indirect_injection", "via_fake_content", 70, TRUE) >>

\* The names of the rules of the external files, by position
ExternalNames == <<"external1", "external2", "external3", "external4">>

\* The rules an external file may hold at position i: of two (type, subtype)
\* pairs, one of them the pair of the base64 heuristic, of two confidences,
\* with a pattern that compiles or not
ExternalRules(i, compiling) ==
  {Rule(ExternalNames[i], pair[1], pair[2], confidence, compiles) :
     pair \in {<<"prompt_injection", "custom">>, <<"obfuscation", "base64_encoded_attack">>},
     confidence \in {50, 95}, compiles \in compiling}

\* The rule lists of at most n rules the external files may yield
RECURSIVE RuleFiles(_, _)
RuleFiles(n, compiling) ==
  IF n = 0 THEN {<<>>}
  ELSE LET shorter == RuleFiles(n - 1, compiling)
       IN  shorter \cup {Append(f, r) : f \in {g \in shorter : Len(g) = n - 1},
                                         r \in ExternalRules(n, compiling)}

\* loadPatterns, injection-detector.ts:38-81: the rules of the files, the
\* built-in ones if the files gave none; then every rule whose pattern
\* compiles gets its RegExp
loadPatterns(files) ==
  LET loaded == IF Len(files) = 0 THEN BuiltInPatterns ELSE files
  IN  [patterns |-> loaded,
       compiledPatterns |-> {loaded[i].name : i \in {j \in DOMAIN loaded : loaded[j].compiles}}]

\* An input of detect, by what detect reads from it: the positions of the
\* rules whose pattern matches it, the texts its base64 runs decode to, and
\* whether it holds invisible unicode characters, is longer than 50000
\* characters, and repeats a word more than 50 times
Text(matches, runs, unicode, long, repeats) ==
  [matches |-> matches, runs |-> runs, unicode |-> unicode, long |-> long,
   repeats |-> repeats]

NoText == Text({}, <<>>, FALSE, FALSE, FALSE)

\* The base64 text that decodes to t
Encoded(t) == Text({}, <<t>>, FALSE, FALSE, FALSE)

\* The texts a base64 run may decode to: a text that matches no rule or the
\* first rule, encoded at most d times
RECURSIVE Decoded(_)
Decoded(d) ==
  IF d = 0 THEN {NoText, Text({1}, <<>>, FALSE, FALSE, FALSE)}
  ELSE Decoded(d - 1) \cup {Encoded(t) : t \in Decoded(d - 1)}

\* No, one or two base64 runs that decode to the texts given
Runs(texts) ==
  {<<>>} \cup {<<t>> : t \in texts} \cup {<<t, u>> : t \in texts, u \in texts}

\* A DetectedAttack
Attack(type, subtype, confidence) ==
  [type |-> type, subtype |-> subtype, confidence |-> confidence]

\* The key of the deduplication map, injection-detector.ts:317
key(attack) == <<attack.type, attack.subtype>>

\* Every later attack of a key replacing the earlier one
replacesAlways(existing, attack) == TRUE

\* existing.confidence < attack.confidence, injection-detector.ts:319
replaces(existing, attack) == existing.confidence < attack.confidence

\* The deduplication loop of injection-detector.ts:314-322 over the first n
\* attacks: the Map in insertion order, a key that is set again keeps its
\* position
RECURSIVE dedupe(_, _)
dedupe(detected, n) ==
  IF n = 0 THEN <<>>
  ELSE LET deduped == dedupe(detected, n - 1)
           attack  == detected[n]
           hit     == {i \in DOMAIN deduped : key(deduped[i]) = key(attack)}
       IN  IF hit = {}
             THEN Append(deduped, attack)
             ELSE [i \in DOMAIN deduped |->
                     IF i \in hit /\ replaces(deduped[i], attack)
                       THEN attack ELSE deduped[i]]

\* The largest of a set of natural numbers, 0 for the empty set
Largest(S) == IF S = {} THEN 0 ELSE CHOOSE n \in S : \A k \in S : k <= n

\* detect, injection-detector.ts:286-327, with heuristicChecks,
\* injection-detector.ts:329-405, which calls detect on the text of every
\* base64 run.  detected is the list before deduplication; decodes is the
\* depth of the deepest Buffer.from(match, 'base64') of the call.
RECURSIVE detect(_, _, _)
detect(rules, compiled, input) ==
  LET matched == SelectSeq([i \in DOMAIN rules |-> i],
                           LAMBDA i : rules[i].name \in compiled /\ i \in input.matches)
      byRule  == [k \in DOMAIN matched |->
                    Attack(rules[matched[k]].type, rules[matched[k]].subtype,
                           rules[matched[k]].confidence)]
      inner   == [k \in DOMAIN input.runs |-> detect(rules, compiled, input.runs[k])]
      malicious == SelectSeq([k \in DOMAIN inner |-> k], LAMBDA k : Len(inner[k].attacks) > 0)
      base64  == [k \in DOMAIN malicious |-> Attack("obfuscation", "base64_encoded_attack", 90)]
      heuristic ==
        base64
          \o (IF input.unicode THEN <<Attack("obfuscation", "unicode_tricks", 70)>> ELSE <<>>)
          \o (IF input.long THEN <<Attack("abuse", "excessive_length", 60)>> ELSE <<>>)
          \o (IF input.repeats THEN <<Attack("abuse", "repetition_attack", 65)>> ELSE <<>>)
      detected == byRule \o heuristic
  IN  [attacks  |-> dedupe(detected, Len(detected)),
       detected |-> detected,
       decodes  |-> IF Len(input.runs) = 0 THEN 0
                      ELSE 1 + Largest({inner[k].decodes : k \in DOMAIN inner})]

\* No detect call: the result before one is made
NoDetection == [attacks |-> <<>>, detected |-> <<>>, decodes |-> -1]

\* The detect call to come has the input given
ToDetect(input) == detection = [input |-> input, result |-> NoDetection]

\* new InjectionDetector(config), injection-detector.ts:34-36, for the
\* rules the files of config.patterns_dir hold.  The input of the detect
\* call to come is drawn according to kind: no call ("none"); a text
\* without base64 runs that matches at most MaxRules rules ("plain"); or
\* such a text or one of ordinary length and wording with one or two base64
\* runs nested up to MaxNesting deep ("nested").
InitDetector(files, kind) ==
  /\ ruleFiles \in files
  /\ patterns = loadPatterns(ruleFiles).patterns
  /\ compiledPatterns = loadPatterns(ruleFiles).compiledPatterns
  /\ \/ kind = "none" /\ ToDetect(NoText)
     \/ /\ kind \in {"plain", "nested"}
        /\ \E matches \in SubsetsUpTo(DOMAIN patterns, MaxRules) :
             \E unicode, long, repeats \in BOOLEAN :
               ToDetect(Text(matches, <<>>, unicode, long, repeats))
     \/ /\ kind = "nested"
        /\ \E matches \in SubsetsUpTo(DOMAIN patterns, MaxRules) :
             \E runs \in Runs(Decoded(MaxNesting - 1)) \ {<<>>} :
               \E unicode \in BOOLEAN :
                 ToDetect(Text(matches, runs, unicode, FALSE, FALSE))

\* No classify call: the options and the result before one is made
NoOptions == [ip |-> "none"]
NoResult == [is_ai_agent |-> FALSE, confidence |-> -1, signals |-> <<>>]

\* new AgentClassifier(), agent-classifier.ts:84-86 (timingHistory is set in
\* InitChat), with the options of the call to come drawn from inputs
InitClassifier(inputs) ==
  /\ classified \in {[opts |-> o, result |-> NoResult] : o \in inputs}
  /\ recorded = [ip \in IPs |-> <<>>]

\* ------------------------------------------------------------------------
\* S3Backend (logging/backends/s3.ts)
\* ------------------------------------------------------------------------
\* new S3Backend(bucket), s3.ts:15-26
InitS3 ==
  /\ buffer = <<>>
  /\ lastFlush = 0
  /\ uploads = {}
  /\ s3Writes = 0
  /\ s3Flushes = 0
  /\ delivered = {}

\* shouldFlush of write, s3.ts:31-33, for the buffer after the push
shouldFlush(b) == Len(b) >= bufferSize \/ now - lastFlush >= flushIntervalMs

\* flush() up to its first await, s3.ts:41-52: the buffer is copied and
\* emptied and the upload of the copy begins
startFlush(b) ==
  /\ s3Flushes < MaxUploads
  /\ s3Flushes' = s3Flushes + 1
  /\ buffer' = <<>>
  /\ lastFlush' = now
  /\ uploads' = uploads \cup {[n |-> s3Flushes + 1, entries |-> b]}

\* The buffer after the catch block of flush, s3.ts:68
unshift(b, entries) == entries \o b

\* ------------------------------------------------------------------------
\* FakeAgent (llm/fake-agent.ts:9-424)
\* ------------------------------------------------------------------------
\* \w of a regular expression
IsWordChar(c) == IsAlnum(c) \/ c = "_"

\* new RegExp('\\b' + keyword + '\\b', 'i').test(text), for a keyword that
\* begins and ends with a word character
matchesKeyword(text, keyword) ==
  \E i \in Occurrences(toLowerCase(text), toLowerCase(keyword)) :
    /\ i = 1 \/ ~IsWordChar(text[i - 1])
    /\ i + Len(keyword) > Len(text) \/ ~IsWordChar(text[i + Len(keyword)])

\* matchesAny, fake-agent.ts:405-410
matchesAny(text, keywords) == \E k \in DOMAIN keywords : matchesKeyword(text, keywords[k])

\* String.prototype.startsWith
startsWith(s, t) == Len(t) <= Len(s) /\ SubSeq(s, 1, Len(t)) = t

GreetingKeywords ==
  <<<<"h", "e", "l", "l", "o">>,
      <<"h", "i">>,
      <<"h", "e", "y">>,
      <<"g", "r", "e", "e", "t", "i", "n", "g", "s">>,
      <<"g", "o", "o", "d", " ", "m", "o", "r", "n", "i", "n", "g">>,
      <<"g", "o", "o", "d", " ", "a", "f", "t", "e", "r", "n", "o", "o", "n">>>>
HelpKeywords ==
  <<<<"h", "e", "l", "p">>,
      <<"w", "h", "a", "t", " ", "c", "a", "n", " ", "y", "o", "u", " ", "d", "o">>,
      <<"c", "a", "p", "a", "b", "i", "l", "i", "t", "i", "e", "s">>,
      <<"f", "e", "a", "t", "u", "r", "e", "s">>>>
CodeKeywords ==
  <<<<"c", "o", "d", "e">>,
      <<"p", "r", "o", "g", "r", "a", "m", "m", "i", "n", "g">>,
      <<"f", "u", "n", "c", "t", "i", "o", "n">>,
      <<"d", "e", "b", "u", "g">>,
      <<"p", "y", "t", "h", "o", "n">>,
      <<"j", "a", "v", "a", "s", "c", "r", "i", "p", "t">>,
      <<"s", "c", "r", "i", "p", "t">>>>
WritingKeywords ==
  <<<<"w", "r", "i", "t", "e">>,
      <<"e", "m", "a", "i", "l">>,
      <<"l", "e", "t", "t", "e", "r">>,
      <<"e", "s", "s", "a", "y">>,
      <<"d", "r", "a", "f", "t">>,
      <<"c", "o", "m", "p", "o", "s", "e">>>>
QuestionWords ==
  <<<<"w", "h", "a", "t">>,
      <<"h", "o", "w">>,
      <<"w", "h", "y">>,
      <<"w", "h", "e", "n">>,
      <<"w", "h", "e", "r", "e">>,
      <<"w", "h", "o">>>>
ApiKeywords ==
  <<<<"a", "p", "i">>,
      <<"e", "n", "d", "p", "o", "i", "n", "t">>,
      <<"i", "n", "t", "e", "g", "r", "a", "t", "i", "o", "n">>,
      <<"k", "e", "y">>,
      <<"t", "o", "k", "e", "n">>,
      <<"a", "u", "t", "h">>>>
ModelKeywords ==
  <<<<"m", "o", "d", "e", "l">>,
      <<"g", "p", "t">>,
      <<"c", "l", "a", "u", "d", "e">>,
      <<"v", "e", "r", "s", "i", "o", "n">>,
      <<"w", "h", "i", "c", "h", " ", "m", "o", "d", "e", "l">>>>
WeatherKeywords ==
  <<<<"w", "e", "a", "t", "h", "e", "r">>,
      <<"t", "e", "m", "p", "e", "r", "a", "t", "u", "r", "e">>,
      <<"f", "o", "r", "e", "c", "a", "s", "t">>>>
NewsKeywords ==
  <<<<"n", "e", "w", "s">>,
      <<"c", "u", "r", "r", "e", "n", "t", " ", "e", "v", "e", "n", "t", "s">>,
      <<"t", "o", "d", "a", "y">>>>
PriceKeywords ==
  <<<<"p", "r", "i", "c", "e">>,
      <<"s", "t", "o", "c", "k">>,
      <<"b", "i", "t", "c", "o", "i", "n">>,
      <<"c", "r", "y", "p", "t", "o">>>>

\* A reply is named by its family of texts and by the variant picked for
\* each of its segments.  pickRandom (fake-agent.ts:412-414) may pick any.
Picks(sizes) == {p \in [DOMAIN sizes -> 1..5] : \A i \in DOMAIN sizes : p[i] <= sizes[i]}
Replies(family, sizes) == {[family |-> family, picks |-> p] : p \in Picks(sizes)}

\* The question-like test of fake-agent.ts:153-156
questionLike(lowerMessage) ==
  \/ \E w \in DOMAIN QuestionWords : startsWith(lowerMessage, QuestionWords[w])
  \/ includes(lowerMessage, <<"?">>)

\* generateKnowledgeResponse, fake-agent.ts:227-282: the replies it may
\* return.  The generic reply has an opening, a body and a caveat, or a
\* body and a caveat only.
generateKnowledgeResponse(question) ==
  LET lowerQuestion == toLowerCase(question)
  IN  IF matchesAny(lowerQuestion, WeatherKeywords) THEN Replies("decline_weather", <<3>>)
      ELSE IF matchesAny(lowerQuestion, NewsKeywords) THEN Replies("decline_news", <<3>>)
      ELSE IF matchesAny(lowerQuestion, PriceKeywords) THEN Replies("decline_prices", <<3>>)
      ELSE Replies("knowledge", <<5, 4, 4>>) \cup Replies("knowledge", <<4, 4>>)

\* generateContextualResponse, fake-agent.ts:57-225: the replies it may
\* return.  The help reply has an intro, five to seven of the nine
\* capabilities (named by their number only) and an outro.
generateContextualResponse(message) ==
  LET lowerMessage == toLowerCase(message)
  IN  IF matchesAny(lowerMessage, GreetingKeywords) THEN Replies("greeting", <<4, 5>>)
      ELSE IF matchesAny(lowerMessage, HelpKeywords)
        THEN {[family |-> "help", picks |-> <<p[1], 4 + p[2], p[3]>>] : p \in Picks(<<4, 3, 4>>)}
      ELSE IF matchesAny(lowerMessage, CodeKeywords) THEN Replies("code", <<5, 5>>)
      ELSE IF matchesAny(lowerMessage, WritingKeywords) THEN Replies("writing", <<4, 5>>)
      ELSE IF questionLike(lowerMessage) THEN generateKnowledgeResponse(message)
      ELSE IF matchesAny(lowerMessage, ApiKeywords) THEN Replies("api", <<3, 3, 3>>)
      ELSE IF matchesAny(lowerMessage, ModelKeywords) THEN Replies("model", <<3, 3, 3, 3>>)
      ELSE Replies("default_reply", <<5, 6>>)

\* initializeTemplates, fake-agent.ts:284-395: the number of variants of
\* the two segments of each template
responseTemplates ==
  [prompt_injection |-> <<5, 4>>, jailbreak |-> <<5, 4>>, tool_abuse |-> <<5, 4>>,
   agent_manipulation |-> <<4, 4>>, indirect_injection |-> <<3, 3>>,
   obfuscation |-> <<3, 3>>, default |-> <<4, 4>>]

\* generateRejectionResponse, fake-agent.ts:28-55, for the type of the
\* first attack: the template's two segments and the closing remark of the
\* configured personality
generateRejectionResponse(type, personality) ==
  LET templateKey == IF type \in DOMAIN responseTemplates THEN type ELSE "default"
      closings == CASE personality = "helpful" -> <<5>>
                    [] personality = "cautious" -> <<3>>
                    [] OTHER -> <<>>
  IN  Replies(templateKey, responseTemplates[templateKey] \o closings)

\* generateResponse, fake-agent.ts:18-26; attacks holds the types of the
\* detected attacks
generateResponse(userMessage, attacks, personality) ==
  IF Len(attacks) > 0 THEN generateRejectionResponse(attacks[1], personality)
  ELSE generateContextualResponse(userMessage)

\* The words the explored messages are made of, and the messages: up to
\* MaxWords words joined by spaces, with or without a final question mark,
\* and the empty message
Vocabulary ==
  {<<"h", "i">>,
   <<"h", "e", "l", "p">>,
   <<"c", "o", "d", "e">>,
   <<"w", "r", "i", "t", "e">>,
   <<"W", "h", "a", "t">>,
   <<"w", "e", "a", "t", "h", "e", "r">>,
   <<"n", "e", "w", "s">>,
   <<"p", "r", "i", "c", "e">>,
   <<"p", "r", "i", "c", "e", "s">>,
   <<"a", "p", "i">>,
   <<"C", "h", "i", "c", "a", "g", "o">>}
RECURSIVE Phrases(_)
Phrases(n) ==
  IF n = 0 THEN {<<>>}
  ELSE Phrases(n - 1) \cup
       {IF ph = <<>> THEN w ELSE ph \o <<" ">> \o w : ph \in Phrases(n - 1) \ {<<>>}, w \in Vocabulary}
       \cup Vocabulary
Messages == Phrases(MaxWords) \cup {ph \o <<"?">> : ph \in Phrases(MaxWords) \ {<<>>}}

AttackTypes ==
  {"prompt_injection", "jailbreak", "tool_abuse", "agent_manipulation",
   "indirect_injection", "obfuscation", "data_exfiltration"}
Personalities == {"helpful", "cautious", "technical"}

\* No generateResponse call, and no reply yet
NoAsk == [message |-> <<>>, attacks |-> <<>>, personality |-> "none"]
NoReply == [family |-> "none", picks |-> <<>>]

\* The generateResponse calls explored: every message without attacks under
\* one personality, and one message with an attack of every type under
\* every personality (the message of such a call is not looked at)
Asks ==
  {[message |-> m, attacks |-> <<>>, personality |-> "helpful"] : m \in Messages}
    \cup {[message |-> <<"h", "i">>, attacks |-> <<t>>, personality |-> q] :
            t \in AttackTypes, q \in Personalities}

\* new FakeAgent(config), fake-agent.ts:13-16, with the generateResponse
\* call to come drawn from asks
InitAgent(asks) == agentCall \in {[ask |-> a, reply |-> NoReply] : a \in asks}

\* The instance ids explored: two that differ after their eighth
\* alphanumeric character only (those of the repository's isolation test),
\* and two that differ in the case of a letter only
InstanceIds ==
  {<<"i", "n", "s", "t", "a", "n", "c", "e", "-", "0", "0", "1">>,
   <<"i", "n", "s", "t", "a", "n", "c", "e", "-", "0", "0", "2">>,
   <<"n", "o", "d", "e", "-", "1">>,
   <<"N", "o", "d", "e", "-", "1">>}

\* generate has not been called; isCanaryToken or extractCanaryId has not
NoToken == [type |-> "none"]
NotCalled == [called |-> FALSE]
Returned(v) == [called |-> TRUE, result |-> v]

\* new CanaryGenerator(instanceId), for each of the generators given.  Each
\* is to be asked for one token, of the type drawn here.
InitGenerators(instances) ==
  \E ids \in instances :
    \E types \in [DOMAIN ids -> CanaryTokenType] :
      generators = [g \in DOMAIN ids |->
                      [instanceId |-> ids[g], type |-> types[g], token |-> NoToken,
                       isCanary |-> NotCalled, extracted |-> NotCalled]]

\* The state after construction, for the given configuration choices, the
\* given options of a classify call to come, the given rule files, the
\* given kind of input of a detect call to come and the given instance ids
\* of the canary generators.
InitParts(sizes, switches, inputs, files, kind, instances) ==
  /\ now = 0
  /\ InitSession(sizes)
  /\ InitGateway
  /\ InitChat
  /\ InitReporter(switches)
  /\ InitLogger
  /\ InitClassifier(inputs)
  /\ InitDetector(files, kind)
  /\ InitGenerators(instances)
  /\ InitS3
  /\ lastOp = [op |-> "init", id |-> 0, full |-> FALSE]

\* The state after construction of a service whose FakeAgent is not asked
\* for a response.
InitService(sizes, switches, inputs, files, kind, instances) ==
  /\ InitParts(sizes, switches, inputs, files, kind, instances)
  /\ InitAgent({NoAsk})

\* The state after construction of a service that mints no canary tokens.
InitAll(sizes, switches, inputs, files, kind) ==
  InitService(sizes, switches, inputs, files, kind, {<<>>})

\* The state after construction of a service without rule files, for the
\* given configuration choices and options of a classify call to come.
InitWith(sizes, switches, inputs) == InitAll(sizes, switches, inputs, {<<>>}, "none")

\* The state after construction, for the given configuration choices.
Init(sizes, switches) == InitWith(sizes, switches, {NoOptions})

\* A caller of the SessionManager API passes a new id (as long as the
\* registry can still be filled and overrun by one) or, once in a run, an id
\* passed before.
CreateSession(id, clientIp) ==
  /\ \/ id = nextId + 1 /\ nextId <= maxSessions /\ nextId' = id /\ reused' = reused
     \/ id \in 1..nextId /\ ~reused /\ nextId' = nextId /\ reused' = TRUE
  /\ sessions' = createSession(sessions, id, clientIp)
  /\ removedIds' = removedIds \cup Departed
  /\ lastOp' = [op |-> "createSession", id |-> id, full |-> Len(sessions) >= maxSessions]
  /\ UNCHANGED <<orderVars, s3Vars, agentVars, canaryVars, detectorVars, now, maxSessions, maxSessionAgeMs, removeCalled, gatewayVars, chatVars, reporterVars, loggerVars, classifierVars>>

\* removeSession(id), session.ts:137-139; called once in a run
RemoveSession(id) ==
  /\ id \in 1..nextId
  /\ ~removeCalled
  /\ removeCalled' = TRUE
  /\ sessions' = MapDelete(sessions, id)
  /\ removedIds' = removedIds \cup Departed
  /\ lastOp' = [op |-> "removeSession", id |-> 0, full |-> FALSE]
  /\ UNCHANGED <<orderVars, s3Vars, agentVars, canaryVars, detectorVars, now, maxSessions, maxSessionAgeMs, nextId, reused, gatewayVars, chatVars, reporterVars, loggerVars, classifierVars>>

\* The setInterval callback of session.ts:110
CleanupOldSessions ==
  /\ sessions' = cleanupOldSessions(sessions, maxSessionAgeMs)
  /\ sessions' # sessions
  /\ removedIds' = removedIds \cup Departed
  /\ lastOp' = [op |-> "cleanupOldSessions", id |-> 0, full |-> FALSE]
  /\ UNCHANGED <<orderVars, s3Vars, agentVars, canaryVars, detectorVars, now, maxSessions, maxSessionAgeMs, nextId, reused, removeCalled, gatewayVars, chatVars, reporterVars, loggerVars, classifierVars>>

\* Time passes.  Admissions that no 60-second interval can share with a
\* later admission leave the admission history.
Tick ==
  /\ now + TickMs <= MaxNow
  /\ now' = now + TickMs
  /\ admitLog' = [ip \in IPs |->
       SelectSeq(admitLog[ip], LAMBDA t : t + CONNECTION_WINDOW_MS > now')]
  /\ lastOp' = [op |-> "tick", id |-> 0, full |-> FALSE]
  /\ UNCHANGED <<orderVars, s3Vars, agentVars, canaryVars, sessionVars, conns, connectionCounts, chatVars, reporterVars, loggerVars,
                 classifierVars, detectorVars>>

NextSession ==
  \/ \E id \in 1..MaxIds : CreateSession(id, "ip1")
  \/ \E id \in 1..MaxIds : RemoveSession(id)
  \/ CleanupOldSessions
  \/ Tick

InitSessionSpec == Init({SmallMaxSessions, LargeMaxSessions}, {TRUE})

SpecSession == InitSessionSpec /\ [][NextSession]_vars

\* ------------------------------------------------------------------------
\* createWebSocketGateway (gateway.ts:22-170)
\* ------------------------------------------------------------------------

\* gateway.ts:43 with the comparison moved before the increment
RateLimitedOffByOne(count) == count > MAX_CONNECTIONS_PER_IP + 1

\* gateway.ts:43
RateLimited(count) == count > MAX_CONNECTIONS_PER_IP

\* gateway.ts:41: the IP has an entry whose window has not ended
InWindow(ip) ==
  /\ connectionCounts[ip] # undefined
  /\ now < connectionCounts[ip].resetAt

\* ws.close(1000): the connection is closed as after a normal end
RejectedNormalClosure(ip) ==
  [clientIp |-> ip, state |-> "rejected", code |-> 1000, session |-> undefined]

\* ws.close(1008, 'Rate limit exceeded'); return, gateway.ts:49-50: the
\* connection is closed with code 1008 and has no session and no handlers.
Rejected(ip) ==
  [clientIp |-> ip, state |-> "rejected", code |-> 1008, session |-> undefined]

\* wss.on('connection'), gateway.ts:34-149.  sessionId = uuidv4() is a new
\* id for every connection, also for one that is then rejected.  The
\* classifier call of gateway.ts:62 passes no responseTimeMs and records
\* nothing.
Connection(ip, limit) ==
  LET sessionId == nextId + 1
      count     == connectionCounts[ip].count + 1
  IN
  /\ nextId < limit
  /\ nextId' = sessionId
  /\ IF InWindow(ip) /\ RateLimited(count)
       THEN \* ws.close(1008, 'Rate limit exceeded'); return
            /\ connectionCounts' = [connectionCounts EXCEPT ![ip].count = count]
            /\ conns' = Append(conns, Rejected(ip))
            /\ sent' = sent
            /\ lastOp' = [op |-> "rateLimited", id |-> sessionId, full |-> FALSE]
            /\ UNCHANGED <<sessions, removedIds, admitLog>>
       ELSE /\ connectionCounts' =
                 IF InWindow(ip)
                   THEN [connectionCounts EXCEPT ![ip].count = count]
                   ELSE [connectionCounts EXCEPT
                           ![ip] = [count |-> 1, resetAt |-> now + CONNECTION_WINDOW_MS]]
            /\ sessions' = createSession(sessions, sessionId, ip)
            /\ removedIds' = removedIds \cup Departed
            /\ conns' = Append(conns, [clientIp |-> ip, state |-> "open", code |-> 0,
                                        session |-> NewSession(sessionId, ip)])
            /\ sent' = [c |-> sessionId, frame |-> Frame("connected", 0, 0, FALSE)]
            /\ admitLog' = [admitLog EXCEPT ![ip] = Append(@, now)]
            /\ lastOp' = [op |-> "connection", id |-> sessionId,
                          full |-> Len(sessions) >= maxSessions]
  /\ arrived' = Append(arrived, <<>>)
  /\ UNCHANGED <<orderVars, s3Vars, agentVars, canaryVars, detectorVars, now, maxSessions, maxSessionAgeMs, reused, removeCalled,
                 msgSeq, handlers, replied, timingHistory, reporterVars, loggerVars, classifierVars>>

\* ws.on('close'), gateway.ts:116-131
WsClose(c) ==
  /\ c \in DOMAIN conns
  /\ conns[c].state = "open"
  /\ conns' = [conns EXCEPT ![c].state = "closed"]
  /\ sessions' = MapDelete(sessions, c)
  /\ removedIds' = removedIds \cup Departed
  /\ lastOp' = [op |-> "wsClose", id |-> c, full |-> FALSE]
  /\ UNCHANGED <<orderVars, s3Vars, agentVars, canaryVars, detectorVars, now, maxSessions, maxSessionAgeMs, nextId, reused, removeCalled,
                 connectionCounts, admitLog, chatVars, reporterVars, loggerVars, classifierVars>>

\* rateLimitCleanup timer, gateway.ts:152-157
RateLimitCleanup ==
  /\ connectionCounts' = [ip \in IPs |->
       IF connectionCounts[ip] # undefined /\ now >= connectionCounts[ip].resetAt
         THEN undefined ELSE connectionCounts[ip]]
  /\ connectionCounts' # connectionCounts
  /\ lastOp' = [op |-> "rateLimitCleanup", id |-> 0, full |-> FALSE]
  /\ UNCHANGED <<orderVars, s3Vars, agentVars, canaryVars, detectorVars, now, sessionVars, conns, admitLog, chatVars, reporterVars, loggerVars, classifierVars>>

\* The heartbeat timer (gateway.ts:142-146) only sends ping frames.
NextGateway ==
  \/ \E ip \in IPs : Connection(ip, MaxConns)
  \/ \E c \in 1..MaxConns : WsClose(c)
  \/ RateLimitCleanup
  \/ CleanupOldSessions
  \/ Tick

\* The gateway builds its SessionManager with the default, large maxSessions
\* (gateway.ts:26).
InitGatewaySpec == Init({LargeMaxSessions}, {TRUE})

SpecGateway == InitGatewaySpec /\ [][NextGateway]_vars

\* ------------------------------------------------------------------------
\* ws.on('message') and the message handlers (gateway.ts:89-351)
\* ------------------------------------------------------------------------
\* A message is given by what the handler reads from it: its type, the
\* attacks detector.detect finds in its content (one finding tagged with the
\* message's number, or none), whether its content matches a canary pattern
\* of gateway.ts:237-241 and whether stream is false.  Type "null" is a frame
\* whose JSON text is null, on which message.type throws.
MessageTypes == {"chat", "tool_call", "system", "pong", "null"}

\* sendMessage, gateway.ts:371-375: dropped unless the socket is open
sendMessage(c, frame) ==
  IF conns[c].state = "open" THEN [c |-> c, frame |-> frame] ELSE sent

\* The reply frames: chat_chunk and chat_response
IsReply(frame) == frame.type \in {"chat_chunk", "chat_response"}

\* The messages whose final reply frame has gone out, after frame is passed
\* to sendMessage on connection c.
repliedAfter(c, frame) ==
  IF conns[c].state = "open" /\ IsReply(frame) /\ frame.done
    THEN replied \cup {frame.m} ELSE replied

\* session.detectedAttacks.unshift(...attacks)
unshiftAttacks(detected, attacks) == attacks \o detected

\* session.detectedAttacks.push(...attacks), gateway.ts:224
pushAttacks(detected, attacks) == detected \o attacks

\* recordTiming with the newest sample dropped from a full history
recordTimingDropNewest(history, ip, responseTimeMs) ==
  LET found  == MapGet(history, ip)
      pushed == (IF found = undefined THEN <<>> ELSE found.samples)
                  \o <<responseTimeMs>>
  IN  MapSet(history, [id |-> ip,
                       samples |-> IF Len(pushed) > maxHistoryPerIp
                                     THEN SubSeq(pushed, 1, maxHistoryPerIp) ELSE pushed])

\* recordTiming(ip, responseTimeMs), agent-classifier.ts:90-101
recordTiming(history, ip, responseTimeMs) ==
  LET found  == MapGet(history, ip)
      pushed == (IF found = undefined THEN <<>> ELSE found.samples)
                  \o <<responseTimeMs>>
  IN  MapSet(history, [id |-> ip,
                       samples |-> IF Len(pushed) > maxHistoryPerIp
                                     THEN Tail(pushed) ELSE pushed])

\* An event without token_value
NoTokenValue == <<>>

\* CanaryReporter.extractCanaryId, gateway.ts:490-506; <<>> is undefined
reportCanaryId(tokenValue) ==
  IF tokenValue = <<>> THEN <<>>
  ELSE IF matchMarker(tokenValue) # <<>> THEN matchMarker(tokenValue)
  ELSE matchColons(tokenValue)

\* The report CanaryReporter.report builds and queues, gateway.ts:450-473
reportPush(queue, n, type, token_value) ==
  Append(queue, [n |-> n, type |-> type, id |-> reportCanaryId(token_value)])

\* A /.../gi pattern without metacharacters matches where the text, case
\* ignored, holds its source
testPattern(content, source) == includes(toLowerCase(content), toLowerCase(source))

\* canaryPatterns of handleChatMessage, gateway.ts:237-241
wsCanaryPatterns ==
  <<<<"s", "k", "-", "p", "r", "o", "j", "-", "c", "l", "a", "w", "t", "r", "a", "p">>,
    <<"s", "k", "-", "a", "n", "t", "-", "a", "p", "i", "0", "3", "-", "c", "l", "a", "w", "t", "r", "a", "p">>,
    <<"A", "K", "I", "A", "C", "L", "A", "W", "T", "R", "A", "P">>>>

\* The content matches one of the patterns of handleChatMessage
inWsMessage(content) == \E i \in DOMAIN wsCanaryPatterns : testPattern(content, wsCanaryPatterns[i])

\* canaryPatterns of checkForCanaryUsage, api.ts:308-314
apiCanaryPatterns ==
  wsCanaryPatterns \o
  <<<<"c", "l", "a", "w", "t", "r", "a", "p", "_", "s", "e", "c", "r", "e", "t", "_">>,
    <<"x", "o", "x", "b", "-", "c", "l", "a", "w", "t", "r", "a", "p">>>>

\* message.match(pattern) with the g flag: every match, from left to right
matchAll(message, source) ==
  LET found == Occurrences(toLowerCase(message), toLowerCase(source))
      at == SelectSeq([i \in 1..Len(message) |-> i], LAMBDA i : i \in found)
  IN  [k \in DOMAIN at |-> SubSeq(message, at[k], at[k] + Len(source) - 1)]

\* checkForCanaryUsage, api.ts:307-325
RECURSIVE matchesFrom(_, _)
matchesFrom(message, i) ==
  IF i > Len(apiCanaryPatterns) THEN <<>>
  ELSE matchAll(message, apiCanaryPatterns[i]) \o matchesFrom(message, i + 1)
checkForCanaryUsage(message) == matchesFrom(message, 1)

\* The session object is shared by the handler's closure and the registry.
WithSession(m, session) ==
  [i \in DOMAIN m |-> IF m[i].id = session.id THEN session ELSE m[i]]

\* One 'message' event, up to the handler's first timer.  The awaits on
\* canaryReporter.report (no flush: the event type is not high priority) and
\* on generateResponse resolve without a timer or I/O, so no other event
\* runs in between; the classifier therefore records Date.now() -
\* msgStartTime = 0.
OnMessage(c, type, attacked, canary, stream) ==
  LET m       == msgSeq + 1
      chat    == type = "chat"
      attacks == IF chat /\ attacked THEN <<m>> ELSE <<>>
      old     == conns[c].session
      session == [old EXCEPT !.messageCount = @ + 1,
                             !.detectedAttacks = pushAttacks(@, attacks)]
      reports == chat /\ canary /\ enabled
  IN
  /\ c \in DOMAIN conns
  /\ conns[c].state = "open"
  /\ msgSeq < MaxMsgs
  /\ chat \/ (~attacked /\ ~canary /\ stream)
  /\ msgSeq' = m
  /\ conns' = [conns EXCEPT ![c].session = session]
  /\ sessions' = WithSession(sessions, session)
  /\ arrived' = [arrived EXCEPT ![c] = Append(@, [m |-> m, type |-> type, attacks |-> attacks])]
  /\ reportQueue' = IF reports
                      THEN reportPush(reportQueue, reportSeq + 1, "canary_in_ws_message", NoTokenValue)
                      ELSE reportQueue
  /\ reportSeq' = IF reports THEN reportSeq + 1 ELSE reportSeq
  /\ reported' = IF reports THEN Append(reported, "canary_in_ws_message") ELSE reported
  /\ timingHistory' = IF chat THEN recordTiming(timingHistory, conns[c].clientIp, 0)
                               ELSE timingHistory
  /\ recorded' = IF chat THEN [recorded EXCEPT ![conns[c].clientIp] = Append(@, 0)]
                          ELSE recorded
  /\ sent' = CASE chat -> sendMessage(c, Frame("typing", m, 0, FALSE))
               [] type \in {"system", "null"} -> sendMessage(c, Frame("error", m, 0, FALSE))
               [] OTHER -> sent
  /\ handlers' = CASE chat -> handlers \cup
                          {[m |-> m, c |-> c, pc |-> IF stream THEN "chunk" ELSE "respond", i |-> 1]}
                   [] type = "tool_call" -> handlers \cup {[m |-> m, c |-> c, pc |-> "tool", i |-> 1]}
                   [] OTHER -> handlers
  /\ lastOp' = [op |-> "message", id |-> c, full |-> FALSE]
  /\ UNCHANGED <<orderVars, s3Vars, agentVars, canaryVars, detectorVars, now, maxSessions, maxSessionAgeMs, nextId, reused, removeCalled, removedIds,
                 connectionCounts, admitLog, enabled, callback_url, reporterInterval,
                 reportFlights, lastFailed, batched, loggerVars, replied, classified>>

\* await delay(50 + Math.random() * 100) elapsed in the streaming loop of
\* gateway.ts:289-296: the handler sends its next word.
ChunkTimer(h) ==
  /\ h \in handlers
  /\ h.pc = "chunk"
  /\ LET frame == Frame("chat_chunk", h.m, h.i, h.i = WordsPerReply)
     IN  /\ sent' = sendMessage(h.c, frame)
         /\ replied' = repliedAfter(h.c, frame)
  /\ handlers' = (handlers \ {h}) \cup
                   (IF h.i < WordsPerReply THEN {[h EXCEPT !.i = @ + 1]} ELSE {})
  /\ lastOp' = [op |-> "chunk", id |-> 0, full |-> FALSE]
  /\ UNCHANGED <<orderVars, s3Vars, agentVars, canaryVars, detectorVars, now, sessionVars, gatewayVars, msgSeq, arrived, timingHistory, reporterVars, loggerVars, classifierVars>>

\* await delay(500 + Math.random() * 1500) elapsed, gateway.ts:299-303
RespondTimer(h) ==
  /\ h \in handlers
  /\ h.pc = "respond"
  /\ LET frame == Frame("chat_response", h.m, 1, TRUE)
     IN  /\ sent' = sendMessage(h.c, frame)
         /\ replied' = repliedAfter(h.c, frame)
  /\ handlers' = handlers \ {h}
  /\ lastOp' = [op |-> "respond", id |-> 0, full |-> FALSE]
  /\ UNCHANGED <<orderVars, s3Vars, agentVars, canaryVars, detectorVars, now, sessionVars, gatewayVars, msgSeq, arrived, timingHistory, reporterVars, loggerVars, classifierVars>>

\* await delay(200 + Math.random() * 300) elapsed, gateway.ts:324-331
ToolTimer(h) ==
  /\ h \in handlers
  /\ h.pc = "tool"
  /\ sent' = sendMessage(h.c, Frame("tool_error", h.m, 0, FALSE))
  /\ replied' = replied
  /\ handlers' = handlers \ {h}
  /\ lastOp' = [op |-> "toolError", id |-> 0, full |-> FALSE]
  /\ UNCHANGED <<orderVars, s3Vars, agentVars, canaryVars, detectorVars, now, sessionVars, gatewayVars, msgSeq, arrived, timingHistory, reporterVars, loggerVars, classifierVars>>

\* Connections from one address, which stay open (close events are taken in
\* SpecGateway); messages without canary text.
NextChat ==
  \/ Connection("ip1", MaxChatConns)
  \/ \E c \in 1..MaxChatConns : \E type \in MessageTypes :
       \E attacked, stream \in BOOLEAN : OnMessage(c, type, attacked, FALSE, stream)
  \/ \E h \in handlers : ChunkTimer(h)
  \/ \E h \in handlers : RespondTimer(h)
  \/ \E h \in handlers : ToolTimer(h)

InitChatSpec == Init({LargeMaxSessions}, {TRUE})

SpecChat == InitChatSpec /\ [][NextChat]_vars

\* Connection attempts from one address, up to and beyond the rate limit,
\* with chat messages on the admitted connections.
NextAdmission ==
  \/ Connection("ip1", MaxAdmitConns)
  \/ \E c \in 1..MaxAdmitConns : \E stream \in BOOLEAN :
       OnMessage(c, "chat", FALSE, FALSE, stream)
  \/ \E h \in handlers : ChunkTimer(h)
  \/ \E h \in handlers : RespondTimer(h)

InitAdmissionSpec == Init({LargeMaxSessions}, {TRUE})

SpecAdmission == InitAdmissionSpec /\ [][NextAdmission]_vars

\* ------------------------------------------------------------------------
\* CanaryReporter (gateway.ts:431-604)
\* ------------------------------------------------------------------------
\* The event types passed to report: one of highPriorityTypes and the one
\* the message handler reports.
ReportTypes == {"canary_credential_used", "canary_in_ws_message"}

\* isHighPriority with the list holding 'aws_key_usage' only
isHighPriorityAwsOnly(type) == type \in {"aws_key_usage"}

\* isHighPriority, gateway.ts:481-488
isHighPriority(type) ==
  type \in {"canary_credential_used", "aws_key_usage", "api_key_external_usage"}

\* The outcomes of the request of sendToCallback, gateway.ts:549-583
CallbackOutcomes == {"ok", "status", "error", "timeout"}

\* flush leaving the reports it sends on the queue
flushKeepsQueue(queue) ==
  /\ reportQueue' = queue
  /\ reportFlights' = IF queue # <<>> /\ callback_url
                        THEN reportFlights \cup {queue} ELSE reportFlights
  /\ batched' = IF queue # <<>> /\ callback_url
                  THEN batched \o [i \in DOMAIN queue |-> queue[i].n] ELSE batched

\* flush, gateway.ts:508-522, up to the request of sendToCallback, on the
\* queue given: the queue is copied and replaced by an empty one, and the
\* copy is sent when a callback URL is configured.
flush(queue) ==
  /\ reportQueue' = <<>>
  /\ reportFlights' = IF queue # <<>> /\ callback_url
                        THEN reportFlights \cup {queue} ELSE reportFlights
  /\ batched' = IF queue # <<>> /\ callback_url
                  THEN batched \o [i \in DOMAIN queue |-> queue[i].n] ELSE batched

\* report, gateway.ts:445-479
Report(type) ==
  LET n == reportSeq + 1
      queued == reportPush(reportQueue, n, type, NoTokenValue)
  IN
  /\ reportSeq < MaxReports
  /\ reportSeq' = n
  /\ reported' = Append(reported, type)
  /\ IF ~enabled
       THEN UNCHANGED <<reportQueue, reportFlights, batched>>
       ELSE IF isHighPriority(type)
              THEN flush(queued)
              ELSE reportQueue' = queued /\ UNCHANGED <<reportFlights, batched>>
  /\ lastOp' = [op |-> IF enabled THEN "report" ELSE "reportDisabled",
                id |-> n, full |-> FALSE]
  /\ UNCHANGED <<orderVars, s3Vars, agentVars, canaryVars, detectorVars, now, sessionVars, gatewayVars, chatVars, enabled, callback_url,
                 reporterInterval, lastFailed, loggerVars, classifierVars>>

\* The 5 s interval of gateway.ts:441 fires with reports queued.
ReporterFlushTimer ==
  /\ reporterInterval
  /\ reportQueue # <<>>
  /\ flush(reportQueue)
  /\ lastOp' = [op |-> "reporterFlush", id |-> 0, full |-> FALSE]
  /\ UNCHANGED <<orderVars, s3Vars, agentVars, canaryVars, detectorVars, now, sessionVars, gatewayVars, chatVars, enabled, callback_url,
                 reporterInterval, reportSeq, reported, lastFailed, loggerVars, classifierVars>>

\* The request of sendToCallback ends: a 2xx response, another status, a
\* request error or the 10 s timeout.  Every outcome resolves the promise
\* (gateway.ts:557, 563, 572, 578) and flush returns.
CallbackDone(batch, outcome) ==
  /\ batch \in reportFlights
  /\ reportFlights' = reportFlights \ {batch}
  /\ lastFailed' = IF outcome = "ok" THEN lastFailed ELSE batch
  /\ lastOp' = [op |-> IF outcome = "ok" THEN "callbackOk" ELSE "callbackFailed",
                id |-> batch[1].n, full |-> FALSE]
  /\ UNCHANGED <<orderVars, s3Vars, agentVars, canaryVars, detectorVars, now, sessionVars, gatewayVars, chatVars, enabled, callback_url,
                 reporterInterval, reportQueue, reportSeq, reported, batched, loggerVars, classifierVars>>

\* close, gateway.ts:591-599
ReporterClose ==
  /\ reporterInterval \/ reportQueue # <<>>
  /\ reporterInterval' = FALSE
  /\ flush(reportQueue)
  /\ lastOp' = [op |-> "reporterClose", id |-> 0, full |-> FALSE]
  /\ UNCHANGED <<orderVars, s3Vars, agentVars, canaryVars, detectorVars, now, sessionVars, gatewayVars, chatVars, enabled, callback_url,
                 reportSeq, reported, lastFailed, loggerVars, classifierVars>>

NextReporter ==
  \/ \E type \in ReportTypes : Report(type)
  \/ ReporterFlushTimer
  \/ \E batch \in reportFlights, outcome \in CallbackOutcomes : CallbackDone(batch, outcome)
  \/ ReporterClose

InitReporterSpec == Init({LargeMaxSessions}, BOOLEAN)

SpecReporter == InitReporterSpec /\ [][NextReporter]_vars

\* ------------------------------------------------------------------------
\* LoggerFactory (logging/index.ts:57-192)
\* ------------------------------------------------------------------------
Levels == {"info", "error"}

\* initialize, index.ts:79-104, with config.enrichment.geo given
initialize(geo) ==
  /\ ~backend
  /\ backend' = TRUE
  /\ enricher' = geo
  /\ loggerInterval' = TRUE
  /\ lastOp' = [op |-> "initialize", id |-> 0, full |-> FALSE]
  /\ UNCHANGED <<s3Vars, agentVars, canaryVars, detectorVars, now, sessionVars, gatewayVars, chatVars, reporterVars, classifierVars,
                 writeQueue, droppedEntries, logSeq, pendingEnrich, logFlights>>

\* The capacity test of index.ts:148, with > in place of >=
atCapacityOffByOne(queue) == Len(queue) > MAX_QUEUE_SIZE

\* The capacity test of index.ts:148
atCapacity(queue) == Len(queue) >= MAX_QUEUE_SIZE

\* Array.pop() called deleteCount times: the newest entries are removed
spliceNewest(queue, start, deleteCount) ==
  SubSeq(queue, 1, Len(queue) - Min(deleteCount, Len(queue)))

\* Array.splice(start, deleteCount), as used at index.ts:150
splice(queue, start, deleteCount) ==
  SubSeq(queue, 1, start) \o SubSeq(queue, start + deleteCount + 1, Len(queue))

\* dropCount, index.ts:149
dropCount == FloorTenth(MAX_QUEUE_SIZE)

\* The write queue after index.ts:147-155 for the entry given
pushEntry(queue, entry) ==
  Append(IF atCapacity(queue) THEN splice(queue, 0, dropCount) ELSE queue, entry)

\* LoggerFactory.flush, index.ts:163-167, on the queue given, up to its
\* first backend.write: the queue is copied and replaced by an empty one.
loggerFlush(queue) ==
  /\ writeQueue' = <<>>
  /\ logFlights' = IF queue # <<>> THEN logFlights \cup {queue} ELSE logFlights

\* The number of writeToBackend calls suspended on enricher.enrich
Suspended == pendingEnrich["info"] + pendingEnrich["error"]

\* writeToBackend from index.ts:140 on, in a call of the level given that
\* was suspended or not: the entry is built and queued, and an error or warn
\* entry starts a flush.
Enqueue(level, resumed) ==
  LET entry == [n |-> logSeq + 1, level |-> level]
  IN
  /\ logSeq' = entry.n
  /\ droppedEntries' = IF atCapacity(writeQueue)
                         THEN droppedEntries + dropCount ELSE droppedEntries
  /\ IF level \in {"error", "warn"}
       THEN /\ Cardinality(logFlights) < MaxFlights
            /\ loggerFlush(pushEntry(writeQueue, entry))
       ELSE /\ writeQueue' = pushEntry(writeQueue, entry)
            /\ UNCHANGED logFlights
  /\ lastOp' = [op |-> IF resumed THEN "resumed" ELSE "enqueue",
                id |-> entry.n, full |-> atCapacity(writeQueue)]

\* writeToBackend, index.ts:115-161, called with the level given and with or
\* without data.source_ip, up to its return or its await on enricher.enrich
writeToBackend(level, hasIp) ==
  /\ logSeq + Suspended < MaxLogs
  /\ IF ~backend
       THEN /\ lastOp' = [op |-> "noBackend", id |-> 0, full |-> FALSE]
            /\ UNCHANGED <<writeQueue, droppedEntries, logSeq, pendingEnrich, logFlights>>
       ELSE IF enricher /\ hasIp
              THEN /\ Suspended < MaxPending
                   /\ pendingEnrich' = [pendingEnrich EXCEPT ![level] = @ + 1]
                   /\ lastOp' = [op |-> "enrich", id |-> 0, full |-> FALSE]
                   /\ UNCHANGED <<writeQueue, droppedEntries, logSeq, logFlights>>
              ELSE /\ Enqueue(level, FALSE)
                   /\ UNCHANGED pendingEnrich
  /\ UNCHANGED <<s3Vars, agentVars, canaryVars, detectorVars, now, sessionVars, gatewayVars, chatVars, reporterVars, classifierVars,
                 backend, enricher, loggerInterval>>

\* enricher.enrich resolves (index.ts:126) and the suspended writeToBackend
\* call runs to its return or to the await in flush.
enrichDone(level) ==
  /\ pendingEnrich[level] > 0
  /\ pendingEnrich' = [pendingEnrich EXCEPT ![level] = @ - 1]
  /\ Enqueue(level, TRUE)
  /\ UNCHANGED <<s3Vars, agentVars, canaryVars, detectorVars, now, sessionVars, gatewayVars, chatVars, reporterVars, classifierVars,
                 backend, enricher, loggerInterval>>

\* The 5 s interval of index.ts:101 fires with entries queued.
flushTimer ==
  /\ loggerInterval
  /\ writeQueue # <<>>
  /\ Cardinality(logFlights) < MaxFlights
  /\ loggerFlush(writeQueue)
  /\ lastOp' = [op |-> "loggerFlush", id |-> 0, full |-> FALSE]
  /\ UNCHANGED <<s3Vars, agentVars, canaryVars, detectorVars, now, sessionVars, gatewayVars, chatVars, reporterVars, classifierVars,
                 backend, enricher, loggerInterval, droppedEntries, logSeq, pendingEnrich>>

\* await backend.write(entry) of index.ts:171 ends for the next entry of a
\* flush in flight, by returning or by throwing: the error is caught and
\* logged through pino only (index.ts:172-174), and the loop goes on.  After
\* its last entry the flush awaits backend.flush() and returns.
backendWriteDone(entries) ==
  /\ entries \in logFlights
  /\ logFlights' = (logFlights \ {entries}) \cup
                     (IF Len(entries) > 1 THEN {Tail(entries)} ELSE {})
  /\ lastOp' = [op |-> "backendWrite", id |-> 0, full |-> FALSE]
  /\ UNCHANGED <<s3Vars, agentVars, canaryVars, detectorVars, now, sessionVars, gatewayVars, chatVars, reporterVars, classifierVars,
                 backend, enricher, loggerInterval, writeQueue, droppedEntries,
                 logSeq, pendingEnrich>>

\* The calls of the LoggerFactory, the order of the calls not recorded
Initialize(geo) == initialize(geo) /\ UNCHANGED orderVars
WriteToBackend(level, hasIp) == writeToBackend(level, hasIp) /\ UNCHANGED orderVars
EnrichDone(level) == enrichDone(level) /\ UNCHANGED orderVars
LoggerFlushTimer == flushTimer /\ UNCHANGED orderVars
BackendWrite(entries) == backendWriteDone(entries) /\ UNCHANGED orderVars

NextLog ==
  \/ \E geo \in BOOLEAN : Initialize(geo)
  \/ \E level \in Levels, hasIp \in BOOLEAN : WriteToBackend(level, hasIp)
  \/ \E level \in Levels : EnrichDone(level)
  \/ LoggerFlushTimer
  \/ \E entries \in logFlights : BackendWrite(entries)

InitLogSpec == Init({LargeMaxSessions}, {TRUE})

SpecLog == InitLogSpec /\ [][NextLog]_vars

\* ------------------------------------------------------------------------
\* The order of the logging calls
\* ------------------------------------------------------------------------
\* The record of the entries passed to backend.write once the entry given
\* is passed, index.ts:171, with the calls of the entries as given
passed(entry, calls) ==
  [last |-> IF calls[entry.n] > handed.last THEN calls[entry.n] ELSE handed.last,
   late |-> handed.late \/ calls[entry.n] < handed.last]

\* The record after a step that starts a flush or none: a flush passes its
\* first entry to backend.write before it is suspended
flushPassed(calls) ==
  IF logFlights' \subseteq logFlights
    THEN handed
    ELSE passed((CHOOSE batch \in logFlights' \ logFlights : TRUE)[1], calls)

\* The calls of the LoggerFactory, each writeToBackend call numbered as it
\* is made
OrderedInitialize(geo) == initialize(geo) /\ UNCHANGED orderVars

OrderedWriteToBackend(level, hasIp) ==
  LET call == logSeq + Suspended + 1
  IN
  /\ call <= MaxOrderLogs
  /\ writeToBackend(level, hasIp)
  /\ waiting' = IF Suspended' > Suspended
                  THEN waiting \cup {[call |-> call, level |-> level]} ELSE waiting
  /\ callOf' = IF logSeq' > logSeq THEN Append(callOf, call) ELSE callOf
  /\ handed' = flushPassed(callOf')

OrderedEnrichDone(level) ==
  /\ enrichDone(level)
  /\ \E w \in waiting :
       /\ w.level = level
       /\ waiting' = waiting \ {w}
       /\ callOf' = Append(callOf, w.call)
  /\ handed' = flushPassed(callOf')

OrderedFlushTimer ==
  /\ flushTimer
  /\ handed' = flushPassed(callOf)
  /\ UNCHANGED <<waiting, callOf>>

OrderedBackendWrite(entries) ==
  /\ backendWriteDone(entries)
  /\ handed' = IF Len(entries) > 1 THEN passed(entries[2], callOf) ELSE handed
  /\ UNCHANGED <<waiting, callOf>>

NextOrder ==
  \/ \E geo \in BOOLEAN : OrderedInitialize(geo)
  \/ \E level \in Levels, hasIp \in BOOLEAN : OrderedWriteToBackend(level, hasIp)
  \/ \E level \in Levels : OrderedEnrichDone(level)
  \/ OrderedFlushTimer
  \/ \E entries \in logFlights : OrderedBackendWrite(entries)

SpecOrder == InitLogSpec /\ [][NextOrder]_vars

\* ------------------------------------------------------------------------
\* AgentClassifier (detection/agent-classifier.ts)
\* ------------------------------------------------------------------------
\* Weights are counted in twentieths: every weight of the source is a
\* multiple of 0.05.  Confidence is counted in hundredths.

\* AI_AGENT_UA_PATTERNS, agent-classifier.ts:32-60, in table order
AI_AGENT_UA_PATTERNS == <<
  [name |-> "ChatGPT-User", weight |-> 19],
  [name |-> "GPTBot", weight |-> 19],
  [name |-> "ClaudeBot", weight |-> 19],
  [name |-> "Claude-Web", weight |-> 19],
  [name |-> "Anthropic-AI", weight |-> 19],
  [name |-> "Applebot-Extended", weight |-> 14],
  [name |-> "Google-Extended", weight |-> 14],
  [name |-> "PerplexityBot", weight |-> 18],
  [name |-> "Cohere-AI", weight |-> 18],
  [name |-> "AI2Bot", weight |-> 18],
  [name |-> "Bytespider", weight |-> 16],
  [name |-> "CCBot", weight |-> 12],
  [name |-> "Diffbot", weight |-> 14],
  [name |-> "YouBot", weight |-> 16],
  [name |-> "HeadlessChrome", weight |-> 10],
  [name |-> "PhantomJS", weight |-> 10],
  [name |-> "Puppeteer", weight |-> 10],
  [name |-> "Playwright", weight |-> 10],
  [name |-> "python-requests", weight |-> 6],
  [name |-> "axios", weight |-> 6],
  [name |-> "node-fetch", weight |-> 6],
  [name |-> "Go-http-client", weight |-> 6],
  [name |-> "curl", weight |-> 4],
  [name |-> "httpx", weight |-> 6],
  [name |-> "aiohttp", weight |-> 6] >>

\* AI_TIMING_WINDOW, agent-classifier.ts:80
AI_TIMING_WINDOW == [minMs |-> 800, maxMs |-> 3000]

\* A user-agent header is given by what classify reads from it: whether the
\* string is non-empty (truthy), whether it is blank after trim(), and the
\* table entries whose pattern matches it.  The patterns are
\* case-insensitive substring tests on distinct names, so a string exists
\* for every set of entries.
UserAgent(matches) == [present |-> TRUE, blank |-> FALSE, matches |-> matches]
MissingUserAgent == [present |-> FALSE, blank |-> FALSE, matches |-> {}]
BlankUserAgent == [present |-> TRUE, blank |-> TRUE, matches |-> {}]

\* An AgentSignal; indicator holds the fixed part of the source's text, for
\* a table match the name of the entry
Signal(type, indicator, weight) ==
  [type |-> type, indicator |-> indicator, weight |-> weight]

\* The smallest element of a non-empty set of numbers
Least(S) == CHOOSE n \in S : \A k \in S : n <= k

\* The entry the loop of agent-classifier.ts:117-126 stops at: the first one
\* in table order whose pattern matches
firstMatch(matches) == Least(matches)

\* 1. User-Agent fingerprinting, agent-classifier.ts:116-142
userAgentSignals(userAgent) ==
  IF userAgent.present
    THEN (IF userAgent.matches # {}
            THEN LET ua == AI_AGENT_UA_PATTERNS[firstMatch(userAgent.matches)]
                 IN  <<Signal("user_agent", ua.name, ua.weight)>>
            ELSE <<>>)
         \o (IF userAgent.blank
               THEN <<Signal("user_agent", "Empty User-Agent header", 6)>>
               ELSE <<>>)
    ELSE <<Signal("user_agent", "Missing User-Agent header", 8)>>

\* Request headers are given by whether any of accept-language,
\* sec-fetch-mode and referer is present and whether accept is '*/*' or
\* 'application/json'.
Headers(browser, programmatic) == [browser |-> browser, programmatic |-> programmatic]

\* 2. Header anomaly detection, agent-classifier.ts:144-170
headerSignals(requestHeaders) ==
  IF requestHeaders = undefined
    THEN <<>>
    ELSE (IF ~requestHeaders.browser
            THEN <<Signal("header_anomaly", "Missing browser-typical headers", 7)>>
            ELSE <<>>)
         \o (IF requestHeaders.programmatic
               THEN <<Signal("header_anomaly", "Programmatic Accept header", 3)>>
               ELSE <<>>)

RECURSIVE Sum(_)
Sum(s) == IF s = <<>> THEN 0 ELSE s[1] + Sum(Tail(s))

RECURSIVE SumOfSquares(_)
SumOfSquares(s) == IF s = <<>> THEN 0 ELSE s[1] * s[1] + SumOfSquares(Tail(s))

\* mean >= minMs && mean <= maxMs, agent-classifier.ts:194, with
\* mean = Sum / Len
inAiWindow(history) ==
  /\ Sum(history) >= AI_TIMING_WINDOW.minMs * Len(history)
  /\ Sum(history) <= AI_TIMING_WINDOW.maxMs * Len(history)

\* Every history taken to be of low variance
lowVarianceAlways(history) == TRUE

\* stddev < 500, agent-classifier.ts:182-195: the variance is
\* SumOfSquares / Len - (Sum / Len)^2, compared with 500^2
lowVariance(history) ==
  Len(history) * SumOfSquares(history) - Sum(history) * Sum(history)
    < 250000 * Len(history) * Len(history)

\* history.length >= 3, agent-classifier.ts:179
minTimingSamples == 3

\* 3. Timing analysis, agent-classifier.ts:178-210, on the history of the
\* identity (undefined when it has none)
timingSignals(found) ==
  IF found # undefined /\ Len(found.samples) >= minTimingSamples
    THEN (IF inAiWindow(found.samples) /\ lowVariance(found.samples)
               /\ Len(found.samples) >= 5
            THEN <<Signal("timing", "Timing consistent with AI agent", 12)>>
            ELSE IF inAiWindow(found.samples)
                   THEN <<Signal("timing", "Timing in AI agent window", 6)>>
                   ELSE <<>>)
    ELSE <<>>

\* 4. Goal-hijacking detection, agent-classifier.ts:212-227: the content is
\* given by whether it matches one of GOAL_HIJACK_RESPONSES.
goalHijackSignals(hijack) ==
  IF hijack THEN <<Signal("goal_hijack", "Response matches goal-hijack trap", 17)>>
            ELSE <<>>

\* product(1 - weight), as a numerator over 20^Len(signals)
RECURSIVE notAgent(_)
notAgent(signals) ==
  IF signals = <<>> THEN 1 ELSE (20 - signals[1].weight) * notAgent(Tail(signals))

RECURSIVE Power(_, _)
Power(b, n) == IF n = 0 THEN 1 ELSE b * Power(b, n - 1)

\* The largest weight, in hundredths, in place of the product rule
calculateConfidenceMax(signals) ==
  IF signals = <<>> THEN {0}
  ELSE {5 * signals[CHOOSE i \in DOMAIN signals :
                      \A j \in DOMAIN signals : signals[i].weight >= signals[j].weight].weight}

\* calculateConfidence, agent-classifier.ts:273-283:
\* Math.round((1 - notAgent) * 100) / 100, in hundredths.  The source
\* computes in binary floating point, where a value that lies exactly half
\* way between two hundredths may come out on either side (1 - 0.5 * 0.85
\* yields 0.57); the values returned are the hundredths nearest to the
\* exact value, both of them at a tie.
calculateConfidence(signals) ==
  IF signals = <<>> THEN {0}
  ELSE LET den == Power(20, Len(signals))
           num == 100 * (den - notAgent(signals))
           up  == (2 * num + den) \div (2 * den)
       IN  IF (2 * num + den) % (2 * den) = 0 THEN {up - 1, up} ELSE {up}

\* The options of a classify call.  responseTime is <<>> when
\* responseTimeMs is undefined and <<ms>> otherwise.
Options(ip, userAgent, requestHeaders, hijack, responseTime) ==
  [ip |-> ip, userAgent |-> userAgent, requestHeaders |-> requestHeaders,
   hijack |-> hijack, responseTime |-> responseTime]

\* The timing history after classify(opts), agent-classifier.ts:174-176
classifyRecord(history, opts) ==
  IF opts.responseTime # <<>>
    THEN recordTiming(history, opts.ip, opts.responseTime[1])
    ELSE history

\* The signals classify(opts) collects, agent-classifier.ts:113-227
classifySignals(history, opts) ==
  userAgentSignals(opts.userAgent)
    \o headerSignals(opts.requestHeaders)
    \o timingSignals(MapGet(classifyRecord(history, opts), opts.ip))
    \o goalHijackSignals(opts.hijack)

\* The results classify(opts) may return, agent-classifier.ts:229-248
classify(history, opts) ==
  LET signals == classifySignals(history, opts)
  IN  {[is_ai_agent |-> confidence >= 50, confidence |-> confidence, signals |-> signals] :
         confidence \in calculateConfidence(signals)}

\* cleanup(maxEntries), agent-classifier.ts:288-297: the first
\* Math.floor(size / 2) keys in insertion order are deleted
cleanup(history, maxEntries) ==
  IF Len(history) > maxEntries
    THEN SubSeq(history, Len(history) \div 2 + 1, Len(history))
    ELSE history

\* A classify call with the given options
ClassifyCall(opts) ==
  /\ timingHistory' = classifyRecord(timingHistory, opts)
  /\ recorded' = IF opts.responseTime # <<>>
                   THEN [recorded EXCEPT ![opts.ip] = Append(@, opts.responseTime[1])]
                   ELSE recorded
  /\ \E result \in classify(timingHistory, opts) :
       classified' = [opts |-> opts, result |-> result]
  /\ lastOp' = [op |-> "classify", id |-> 0, full |-> FALSE]
  /\ UNCHANGED <<orderVars, s3Vars, agentVars, canaryVars, detectorVars, now, sessionVars, gatewayVars, msgSeq, handlers, sent, replied, arrived,
                 reporterVars, loggerVars>>

\* The classify call whose options were drawn at the start
Classify ==
  /\ classified.result = NoResult
  /\ ClassifyCall(classified.opts)

\* A recordTiming(ip, responseTimeMs) call
RecordTiming(ip, responseTimeMs) ==
  /\ timingHistory' = recordTiming(timingHistory, ip, responseTimeMs)
  /\ recorded' = [recorded EXCEPT ![ip] = Append(@, responseTimeMs)]
  /\ lastOp' = [op |-> "recordTiming", id |-> 0, full |-> FALSE]
  /\ UNCHANGED <<orderVars, s3Vars, agentVars, canaryVars, detectorVars, now, sessionVars, gatewayVars, msgSeq, handlers, sent, replied, arrived,
                 reporterVars, loggerVars, classified>>

\* Samples recorded so far, over all identities
Recorded == Cardinality({e \in IPs \X (1..MaxRecorded) : e[2] <= Len(recorded[e[1]])})

\* The classify call the message handler makes, gateway.ts:257-262 (the
\* user agent of the session, here one that matches no table entry, no
\* request headers), with content that matches no goal-hijack pattern
ClassifyMessage(ip, responseTime) ==
  /\ responseTime # <<>> => Recorded < MaxRecorded
  /\ ClassifyCall(Options(ip, UserAgent({}), undefined, FALSE, responseTime))

\* recordTiming and classify calls for two identities; every sample is the
\* serial number of its call, so that no two samples are equal.
NextHistory ==
  \E ip \in IPs :
    \/ Recorded < MaxRecorded /\ RecordTiming(ip, Recorded + 1)
    \/ ClassifyMessage(ip, <<Recorded + 1>>)
    \/ ClassifyMessage(ip, <<>>)

InitHistorySpec == Init({LargeMaxSessions}, {TRUE})

SpecHistory == InitHistorySpec /\ [][NextHistory]_vars

\* The running service as far as the classifier sees it: connections from
\* any address and chat messages on them.  Nothing in the service calls
\* cleanup.
NextIdentities ==
  \/ \E ip \in IPs : Connection(ip, MaxIdentityConns)
  \/ \E c \in 1..MaxIdentityConns : \E stream \in BOOLEAN :
       OnMessage(c, "chat", FALSE, FALSE, stream)
  \/ \E h \in handlers : ChunkTimer(h)
  \/ \E h \in handlers : RespondTimer(h)

InitIdentitiesSpec == Init({LargeMaxSessions}, {TRUE})

SpecIdentities == InitIdentitiesSpec /\ [][NextIdentities]_vars

\* Response times of the timing specification: below, inside and above
\* AI_TIMING_WINDOW
Samples == {0, 1000, 5000}

\* recordTiming and classify calls for one identity, with response times
\* drawn from Samples
NextTiming ==
  \E ms \in Samples :
    \/ Recorded < MaxRecorded /\ RecordTiming("ip1", ms)
    \/ ClassifyMessage("ip1", <<ms>>)
    \/ ClassifyMessage("ip1", <<>>)

InitTimingSpec == Init({LargeMaxSessions}, {TRUE})

SpecTiming == InitTimingSpec /\ [][NextTiming]_vars

\* The user-agent headers of SpecClassify: missing, blank, and one for every
\* set of at most MaxUaMatches matching table entries
UserAgents ==
  {MissingUserAgent, BlankUserAgent}
    \cup {UserAgent(matches) : matches \in SubsetsUpTo(DOMAIN AI_AGENT_UA_PATTERNS, MaxUaMatches)}

RequestHeaders == {undefined} \cup {Headers(b, p) : b \in BOOLEAN, p \in BOOLEAN}

\* The classify calls of SpecClassify
ClassifyInputs ==
  {Options("ip1", userAgent, requestHeaders, hijack, responseTime) :
     userAgent \in UserAgents, requestHeaders \in RequestHeaders,
     hijack \in BOOLEAN, responseTime \in {<<>>}}

\* One classify call, of any user agent, headers and content, on a
\* classifier that has recorded any number of one-second response times.
NextClassify ==
  \/ Classify
  \/ /\ classified.result = NoResult
     /\ Recorded < MaxRecorded
     /\ RecordTiming("ip1", 1000)

InitClassifySpec == InitWith({LargeMaxSessions}, {TRUE}, ClassifyInputs)

SpecClassify == InitClassifySpec /\ [][NextClassify]_vars

\* ------------------------------------------------------------------------
\* InjectionDetector calls
\* ------------------------------------------------------------------------

\* The detect call whose input was drawn at the start
Detect ==
  /\ detection.result = NoDetection
  /\ detection' = [detection EXCEPT
                     !.result = detect(patterns, compiledPatterns, detection.input)]
  /\ lastOp' = [op |-> "detect", id |-> 0, full |-> FALSE]
  /\ UNCHANGED <<orderVars, s3Vars, agentVars, canaryVars, now, sessionVars, gatewayVars, chatVars, reporterVars, loggerVars,
                 classifierVars, ruleFiles, patterns, compiledPatterns>>

NextDetect == Detect

\* A detector built from rule files whose patterns all compile, or from
\* none, and one detect call on a text with base64 runs
InitDetectSpec ==
  InitAll({LargeMaxSessions}, {TRUE}, {NoOptions}, RuleFiles(MaxRules, {TRUE}), "nested")

SpecDetect == InitDetectSpec /\ [][NextDetect]_vars

\* A detector built from any rule files, and one detect call on a plain text
InitLoadSpec ==
  InitAll({LargeMaxSessions}, {TRUE}, {NoOptions}, RuleFiles(MaxRules, BOOLEAN), "plain")

SpecLoad == InitLoadSpec /\ [][NextDetect]_vars

\* ------------------------------------------------------------------------
\* CanaryGenerator calls
\* ------------------------------------------------------------------------
\* generator.generate(type), for every outcome of uuidv4, randomBytes and
\* Math.random
Generate(g) ==
  /\ g \in DOMAIN generators
  /\ generators[g].token = NoToken
  /\ \E id \in Uuids, random \in randomBytes(16), keyBytes \in randomBytes(KeyBytes),
        number \in TelegramNumbers :
       generators' = [generators EXCEPT ![g].token =
                        generate(generators[g].instanceId, generators[g].type,
                                 id, random, keyBytes, number)]
  /\ lastOp' = [op |-> "generate", id |-> g, full |-> FALSE]
  /\ UNCHANGED <<orderVars, s3Vars, agentVars, detectorVars, now, sessionVars, gatewayVars, chatVars, reporterVars,
                 loggerVars, classifierVars>>

\* generator.isCanaryToken(token.value) for the token generate returned
IsCanaryToken(g) ==
  /\ g \in DOMAIN generators
  /\ generators[g].token # NoToken
  /\ generators[g].isCanary = NotCalled
  /\ generators' = [generators EXCEPT ![g].isCanary = Returned(isCanaryToken(generators[g].token.value))]
  /\ lastOp' = [op |-> "isCanaryToken", id |-> g, full |-> FALSE]
  /\ UNCHANGED <<orderVars, s3Vars, agentVars, detectorVars, now, sessionVars, gatewayVars, chatVars, reporterVars,
                 loggerVars, classifierVars>>

\* generator.extractCanaryId(token.value) for the token generate returned
ExtractCanaryId(g) ==
  /\ g \in DOMAIN generators
  /\ generators[g].token # NoToken
  /\ generators[g].extracted = NotCalled
  /\ generators' = [generators EXCEPT ![g].extracted = Returned(extractCanaryId(generators[g].token.value))]
  /\ lastOp' = [op |-> "extractCanaryId", id |-> g, full |-> FALSE]
  /\ UNCHANGED <<orderVars, s3Vars, agentVars, detectorVars, now, sessionVars, gatewayVars, chatVars, reporterVars,
                 loggerVars, classifierVars>>

\* One generator, asked for a token of any type, and its two checks
NextCanary == Generate(1) \/ IsCanaryToken(1) \/ ExtractCanaryId(1)

InitCanarySpec ==
  InitService({SmallMaxSessions}, {TRUE}, {NoOptions}, {<<>>}, "none",
              {<<i>> : i \in InstanceIds})

SpecCanary == InitCanarySpec /\ [][NextCanary]_vars

\* Two generators with different instance ids, each asked for a token of
\* the same type
NextIsolation == Generate(1) \/ Generate(2)

InitIsolationSpec ==
  /\ InitService({SmallMaxSessions}, {TRUE}, {NoOptions}, {<<>>}, "none",
                 {<<i, j>> : i, j \in InstanceIds})
  /\ generators[1].instanceId # generators[2].instanceId
  /\ generators[1].type = generators[2].type

SpecIsolation == InitIsolationSpec /\ [][NextIsolation]_vars

\* POST /api/v1/chat with the given message, api.ts:16-102, for its effect
\* on the reporter: a report of type api_key_usage_attempt, which is not of
\* high priority, when the message matches a canary pattern.
ChatRoute(message) ==
  LET reports == enabled /\ checkForCanaryUsage(message) # <<>>
  IN
  /\ reportSeq < MaxReports
  /\ reportQueue' = IF reports
                      THEN reportPush(reportQueue, reportSeq + 1, "api_key_usage_attempt", NoTokenValue)
                      ELSE reportQueue
  /\ reportSeq' = IF reports THEN reportSeq + 1 ELSE reportSeq
  /\ reported' = IF reports THEN Append(reported, "api_key_usage_attempt") ELSE reported
  /\ lastOp' = [op |-> "chatRoute", id |-> Len(reportQueue), full |-> FALSE]
  /\ UNCHANGED <<orderVars, s3Vars, agentVars, canaryVars, detectorVars, now, sessionVars, gatewayVars, chatVars, enabled,
                 callback_url, reporterInterval, reportFlights, lastFailed, batched, loggerVars,
                 classifierVars>>

\* A minted value sent to the service as the text of a chat message, over
\* the WebSocket and over HTTP, until MaxLeaks messages have been received
\* or MaxLeaks reports built
LeakedValue == generators[1].token.value
NextLeak ==
  \/ Generate(1)
  \/ Connection("ip1", MaxLeaks)
  \/ /\ generators[1].token # NoToken
     /\ msgSeq < MaxLeaks
     /\ \E c \in 1..MaxLeaks : \E attacked \in BOOLEAN :
          OnMessage(c, "chat", attacked, inWsMessage(LeakedValue), FALSE)
  \/ \E h \in handlers : RespondTimer(h)
  \/ /\ generators[1].token # NoToken
     /\ reportSeq < MaxLeaks
     /\ ChatRoute(LeakedValue)

InitLeakSpec ==
  InitService({LargeMaxSessions}, {TRUE}, {NoOptions}, {<<>>}, "none",
              {<<<<"n", "o", "d", "e", "-", "1">>>>})

SpecLeak == InitLeakSpec /\ [][NextLeak]_vars

\* ------------------------------------------------------------------------
\* S3Backend calls
\* ------------------------------------------------------------------------
\* write(entry), s3.ts:28-38, up to the await inside flush
S3Write ==
  /\ s3Writes < MaxS3Writes
  /\ s3Writes' = s3Writes + 1
  /\ LET pushed == Append(buffer, s3Writes + 1)
     IN  IF shouldFlush(pushed)
           THEN startFlush(pushed)
           ELSE buffer' = pushed /\ UNCHANGED <<lastFlush, uploads, s3Flushes>>
  /\ lastOp' = [op |-> "s3Write", id |-> s3Writes + 1, full |-> FALSE]
  /\ UNCHANGED <<orderVars, delivered, agentVars, canaryVars, detectorVars, now, sessionVars, gatewayVars, chatVars,
                 reporterVars, loggerVars, classifierVars>>

\* flush() called by LoggerFactory or by close(), s3.ts:40-52, 84-86; a call
\* on an empty buffer returns at once
S3Flush ==
  /\ buffer # <<>>
  /\ startFlush(buffer)
  /\ lastOp' = [op |-> "s3Flush", id |-> 0, full |-> FALSE]
  /\ UNCHANGED <<orderVars, s3Writes, delivered, agentVars, canaryVars, detectorVars, now, sessionVars, gatewayVars,
                 chatVars, reporterVars, loggerVars, classifierVars>>

\* gzip and client.send of an upload resolve, s3.ts:52-64
S3UploadDone(u) ==
  /\ u \in uploads
  /\ uploads' = uploads \ {u}
  /\ delivered' = delivered \cup Range(u.entries)
  /\ lastOp' = [op |-> "s3UploadDone", id |-> u.n, full |-> FALSE]
  /\ UNCHANGED <<orderVars, buffer, lastFlush, s3Writes, s3Flushes, agentVars, canaryVars, detectorVars, now,
                 sessionVars, gatewayVars, chatVars, reporterVars, loggerVars, classifierVars>>

\* gzip or client.send of an upload rejects, s3.ts:65-69
S3UploadFailed(u) ==
  /\ u \in uploads
  /\ uploads' = uploads \ {u}
  /\ buffer' = unshift(buffer, u.entries)
  /\ lastOp' = [op |-> "s3UploadFailed", id |-> u.n, full |-> FALSE]
  /\ UNCHANGED <<orderVars, lastFlush, s3Writes, s3Flushes, delivered, agentVars, canaryVars, detectorVars, now,
                 sessionVars, gatewayVars, chatVars, reporterVars, loggerVars, classifierVars>>

NextS3 ==
  \/ S3Write
  \/ S3Flush
  \/ \E u \in uploads : S3UploadDone(u)
  \/ \E u \in uploads : S3UploadFailed(u)
  \/ Tick

InitS3Spec == Init({LargeMaxSessions}, {TRUE})
SpecS3 == InitS3Spec /\ [][NextS3]_vars

\* ------------------------------------------------------------------------
\* FakeAgent calls
\* ------------------------------------------------------------------------
\* The generateResponse call drawn at the start, for every random choice
GenerateResponse ==
  /\ agentCall.ask # NoAsk
  /\ agentCall.reply = NoReply
  /\ \E reply \in generateResponse(agentCall.ask.message, agentCall.ask.attacks,
                                    agentCall.ask.personality) :
       agentCall' = [agentCall EXCEPT !.reply = reply]
  /\ lastOp' = [op |-> "generateResponse", id |-> 0, full |-> FALSE]
  /\ UNCHANGED <<orderVars, s3Vars, canaryVars, detectorVars, now, sessionVars, gatewayVars, chatVars, reporterVars,
                 loggerVars, classifierVars>>

NextAgent == GenerateResponse

InitAgentSpec ==
  /\ InitParts({LargeMaxSessions}, {TRUE}, {NoOptions}, {<<>>}, "none", {<<>>})
  /\ InitAgent(Asks)

SpecAgent == InitAgentSpec /\ [][NextAgent]_vars

\* ------------------------------------------------------------------------
\* The age sweep of a running gateway
\* ------------------------------------------------------------------------
\* Connections, their chat messages and closes, while time passes and the
\* cleanup timer of the SessionManager fires
NextSweep ==
  \/ Connection("ip1", MaxSweepConns)
  \/ \E c \in 1..MaxSweepConns : OnMessage(c, "chat", FALSE, FALSE, FALSE)
  \/ \E h \in handlers : RespondTimer(h)
  \/ \E c \in 1..MaxSweepConns : WsClose(c)
  \/ CleanupOldSessions
  \/ Tick

InitSweepSpec == Init({LargeMaxSessions}, {TRUE})

\* The interval timer of session.ts:110 keeps firing as long as the
\* gateway is not closed: a sweep that has something to remove is not put
\* off for ever.
SpecSweep == InitSweepSpec /\ [][NextSweep]_vars /\ WF_vars(CleanupOldSessions)

\* ------------------------------------------------------------------------
\* Session registry properties
\* ------------------------------------------------------------------------

\* C1: after any sequence of createSession, removeSession and
\* cleanupOldSessions calls the number of live sessions never exceeds
\* maxSessions, for any maxSessions >= 1.
C1_SessionCountBounded == Len(sessions) <= maxSessions

\* C9 (as stated): once an id has left the registry, getSession never
\* returns a session for it again, whatever operations follow.
C9_RemovedIdNeverReturned ==
  \A id \in removedIds : getSession(id) = undefined

\* C9 (amended): an id that has left the registry is returned by getSession
\* again only through a createSession call that passes that same id;
\* removeSession, eviction, the age sweep and createSession for other ids
\* never bring it back.
C9_RemovedIdReturnsOnlyByCreate ==
  [][\A id \in removedIds :
       (id \notin Ids(sessions) /\ id \in Ids(sessions'))
         => (lastOp'.op = "createSession" /\ lastOp'.id = id)]_vars

\* A removed id is still absent after a createSession for another id.
C9_Witness ==
  \E id \in removedIds :
    /\ getSession(id) = undefined
    /\ lastOp.op = "createSession"
    /\ lastOp.id # id

\* E is a set of exactly floor(0.1 * maxSessions) registry positions and no
\* session outside E started before one inside it.
IsOldest(E) ==
  /\ Cardinality(E) = FloorTenth(maxSessions)
  /\ \A i \in E : \A j \in (DOMAIN sessions) \ E :
       ~(sessions[j].startedAt < sessions[i].startedAt)

\* The sessions this createSession step evicts are exactly the
\* floor(0.1 * maxSessions) with the earliest startedAt, and the new session
\* is in the registry.  The evicted sessions are those whose ids are gone
\* afterwards, together with the previous session of id when that one was
\* evicted before the new session took its id.
EvictedExactlyOldest ==
  LET id   == lastOp'.id
      gone == {i \in DOMAIN sessions : sessions[i].id \notin Ids(sessions')}
      own  == {i \in DOMAIN sessions : sessions[i].id = id}
      made == MapGet(sessions', id)
  IN  /\ IsOldest(gone) \/ IsOldest(gone \cup own)
      /\ made # undefined
      /\ made = NewSession(id, made.clientIp)

\* C10: every createSession call made with the live-session count at
\* maxSessions or above evicts exactly the floor(0.1 * maxSessions) sessions
\* with the earliest startedAt (none is evicted while an earlier one stays)
\* and leaves the newly created session in the registry.
C10_EvictsExactlyOldest ==
  [][(lastOp'.op = "createSession" /\ Len(sessions) >= maxSessions)
       => EvictedExactlyOldest]_vars

\* A createSession with a new id found the larger registry full, evicted
\* one session and added its own.
\* ------------------------------------------------------------------------
\* Message handling properties
\* ------------------------------------------------------------------------

\* C7: a reply frame (chat_chunk or chat_response) for a message is sent
\* only after the reply to every earlier chat message on the same connection
\* has been sent completely, so that replies never interleave.
C7_RepliesSequential ==
  [][(sent' # sent /\ IsReply(sent'.frame))
       => \A k \in DOMAIN arrived[sent'.c] :
            LET earlier == arrived[sent'.c][k]
            IN  (earlier.type = "chat" /\ earlier.m < sent'.frame.m)
                  => earlier.m \in replied]_vars

\* The detection results of the messages in log, concatenated in order
RECURSIVE AttacksOf(_)
AttacksOf(log) ==
  IF log = <<>> THEN <<>> ELSE log[1].attacks \o AttacksOf(Tail(log))

\* C8: for every session, messageCount is the number of messages that have
\* arrived on its connection and detectedAttacks is the concatenation of
\* their detection results in arrival order, whatever the interleaving of
\* the handlers; the registry holds the same session object.
C8_CountAndAttacksInArrivalOrder ==
  \A c \in DOMAIN conns :
    conns[c].session # undefined =>
      /\ conns[c].session.messageCount = Len(arrived[c])
      /\ conns[c].session.detectedAttacks = AttacksOf(arrived[c])
      /\ getSession(c) \in {undefined, conns[c].session}

\* Two messages with attacks have arrived on one connection while the
\* handler of the first is still suspended.
C8_Witness ==
  \E c \in DOMAIN conns :
    /\ conns[c].session # undefined
    /\ Len(conns[c].session.detectedAttacks) = 2
    /\ conns[c].session.messageCount = 2
    /\ \E h \in handlers : h.c = c /\ h.m = arrived[c][1].m

\* A connection rejected by the rate limit has no session in the registry,
\* has received no message and has no handler running.
RejectedStaysOut ==
  \A c \in DOMAIN conns :
    conns[c].state = "rejected" =>
      /\ conns[c].code = 1008
      /\ conns[c].session = undefined
      /\ getSession(c) = undefined
      /\ arrived[c] = <<>>
      /\ \A h \in handlers : h.c # c

\* C11: a connection rejected by the rate limit is closed with code 1008;
\* the step that rejects it leaves the session registry, the timing
\* histories, the handlers and the frames sent unchanged, and the connection
\* never gets a session or a message handler afterwards.
C11_RejectedClosedWith1008 ==
  /\ []RejectedStaysOut
  /\ [][lastOp'.op = "rateLimited" =>
          /\ conns'[lastOp'.id].state = "rejected"
          /\ conns'[lastOp'.id].code = 1008
          /\ sessions' = sessions
          /\ timingHistory' = timingHistory
          /\ handlers' = handlers
          /\ sent' = sent]_vars

\* A connection has just been rejected while handlers of admitted
\* connections are suspended and timing histories exist.
C11_Witness ==
  /\ lastOp.op = "rateLimited"
  /\ conns[lastOp.id].state = "rejected"
  /\ handlers # {}
  /\ timingHistory # <<>>

\* ------------------------------------------------------------------------
\* Reporting pipeline properties
\* ------------------------------------------------------------------------
IsPrefix(a, b) == Len(a) <= Len(b) /\ SubSeq(b, 1, Len(a)) = a

\* C3: when the delivery of a flushed batch fails (callback error, non-2xx
\* status or timeout), the failed batch is put back at the front of the
\* report queue, so that it is still queued for the next flush.
C3_FailedBatchRequeued ==
  [][lastOp'.op = "callbackFailed" => IsPrefix(lastFailed', reportQueue')]_vars

\* The event types of highPriorityTypes
OnHighPriorityList(type) ==
  type \in {"canary_credential_used", "aws_key_usage", "api_key_external_usage"}

\* The step is a call of report().
IsReport == Len(reported') = Len(reported) + 1

\* C12: on an enabled reporter, report() with an event type of the
\* high-priority list starts a flush within the call: the queue, the new
\* report included, is taken as one batch and sent when a callback URL is
\* configured.  report() with any other type only appends to the queue, and
\* the periodic flush takes everything queued as its batch.
C12_PriorityFlush ==
  [][/\ (IsReport /\ enabled /\ OnHighPriorityList(reported'[lastOp'.id])) =>
          /\ reportQueue' = <<>>
          /\ callback_url =>
               \E batch \in reportFlights' \ reportFlights :
                 /\ batch[Len(batch)].n = lastOp'.id
                 /\ SubSeq(batch, 1, Len(batch) - 1) = reportQueue
     /\ (IsReport /\ enabled /\ ~OnHighPriorityList(reported'[lastOp'.id])) =>
          /\ reportFlights' = reportFlights
          /\ Len(reportQueue') = Len(reportQueue) + 1
          /\ SubSeq(reportQueue', 1, Len(reportQueue)) = reportQueue
          /\ reportQueue'[Len(reportQueue')].n = lastOp'.id
     /\ lastOp'.op = "reporterFlush" =>
          /\ reportQueue' = <<>>
          /\ callback_url => reportQueue \in reportFlights']_vars

\* A high-priority report has just been flushed together with a report
\* queued before it, with a callback URL configured.
C12_Witness ==
  /\ lastOp.op = "report"
  /\ OnHighPriorityList(reported[lastOp.id])
  /\ callback_url
  /\ \E batch \in reportFlights :
       /\ Len(batch) >= 2
       /\ batch[Len(batch)].n = lastOp.id
       /\ ~OnHighPriorityList(batch[1].type)

\* C5: the report queue never holds more than its maximum number of
\* reports, whatever the report() calls made between two flushes.
C5_ReportQueueBounded == Len(reportQueue) <= ReportQueueLimit

\* C4: the write queue never holds more than MAX_QUEUE_SIZE entries, under
\* any interleaving of writeToBackend calls, calls resuming from enrichment
\* and flushes.
C4_WriteQueueBounded == Len(writeQueue) <= MAX_QUEUE_SIZE

\* A writeToBackend call that was suspended on enrichment has resumed
\* with the queue at capacity.
C4_Witness ==
  /\ lastOp.op = "resumed"
  /\ lastOp.full
  /\ writeQueue # <<>>

\* The queue as index.ts:155 leaves it in a step that queues an entry: the
\* write queue, or the batch taken from it by the flush that follows.
Pushed ==
  IF logFlights' = logFlights
    THEN writeQueue'
    ELSE CHOOSE batch \in logFlights' \ logFlights : TRUE

\* C6: a writeToBackend call that finds the write queue at MAX_QUEUE_SIZE
\* removes exactly the floor(0.1 * MAX_QUEUE_SIZE) oldest entries, keeps the
\* others in order with the new entry last, and adds the number removed to
\* droppedEntries; no step decreases droppedEntries.
C6_DropsOldestTenth ==
  [][/\ droppedEntries' >= droppedEntries
     /\ (lastOp'.op \in {"enqueue", "resumed"} /\ Len(writeQueue) >= MAX_QUEUE_SIZE) =>
          LET n == FloorTenth(MAX_QUEUE_SIZE)
          IN  /\ Len(Pushed) = Len(writeQueue) - n + 1
              /\ SubSeq(Pushed, 1, Len(Pushed) - 1) =
                   SubSeq(writeQueue, n + 1, Len(writeQueue))
              /\ Pushed[Len(Pushed)].n = lastOp'.id
              /\ droppedEntries' = droppedEntries + n]_vars

\* An entry has been queued with the queue at capacity and entries dropped.
C6_Witness ==
  /\ lastOp.op = "enqueue"
  /\ lastOp.full
  /\ droppedEntries = FloorTenth(MAX_QUEUE_SIZE)
  /\ droppedEntries > 0
  /\ Len(writeQueue) = MAX_QUEUE_SIZE - FloorTenth(MAX_QUEUE_SIZE) + 1

\* ------------------------------------------------------------------------
\* Connection admission properties
\* ------------------------------------------------------------------------

\* Admissions of ip at times in [from, from + CONNECTION_WINDOW_MS)
AdmittedIn(ip, from) ==
  Cardinality({i \in DOMAIN admitLog[ip] :
                 from <= admitLog[ip][i] /\ admitLog[ip][i] < from + CONNECTION_WINDOW_MS})

\* C2 (as stated): for every identity, every 60-second interval, starting
\* at any instant, holds at most MAX_CONNECTIONS_PER_IP admitted connections.
\* (An interval with the most admissions can be taken to start at one.)
C2_SlidingWindowLimit ==
  \A ip \in IPs : \A i \in DOMAIN admitLog[ip] :
    AdmittedIn(ip, admitLog[ip][i]) <= MAX_CONNECTIONS_PER_IP

\* C2 (amended): the window is fixed, not sliding.  It opens at an
\* identity's first connection after the previous window ended and lasts 60
\* seconds; within it at most MAX_CONNECTIONS_PER_IP connections are
\* admitted, and an arbitrary 60-second interval, which can straddle two
\* windows, holds at most twice that many.
C2_FixedWindowLimit ==
  \A ip \in IPs :
    /\ connectionCounts[ip] # undefined =>
         AdmittedIn(ip, connectionCounts[ip].resetAt - CONNECTION_WINDOW_MS)
           <= MAX_CONNECTIONS_PER_IP
    /\ \A i \in DOMAIN admitLog[ip] :
         AdmittedIn(ip, admitLog[ip][i]) <= 2 * MAX_CONNECTIONS_PER_IP

\* A connection was just rejected for an identity whose running window is
\* full.
C2_Witness ==
  /\ lastOp.op = "rateLimited"
  /\ LET ip == conns[lastOp.id].clientIp
     IN  /\ InWindow(ip)
         /\ AdmittedIn(ip, connectionCounts[ip].resetAt - CONNECTION_WINDOW_MS)
              = MAX_CONNECTIONS_PER_IP

C10_Witness ==
  /\ lastOp.op = "createSession"
  /\ lastOp.full
  /\ maxSessions = LargeMaxSessions
  /\ lastOp.id = MaxIds
  /\ ~reused
  /\ Len(sessions) = maxSessions - FloorTenth(maxSessions) + 1
  /\ removedIds # {}

\* ------------------------------------------------------------------------
\* Agent classification properties
\* ------------------------------------------------------------------------

\* The product of the first n factors (20 - weight) of the signals: the
\* product of (1 - w_i), scaled by 20^n
RECURSIVE ComplementProduct(_, _)
ComplementProduct(signals, n) ==
  IF n = 0 THEN 1 ELSE ComplementProduct(signals, n - 1) * (20 - signals[n].weight)

\* c hundredths is the value 1 - product(1 - w_i) over the signals given,
\* rounded to two decimals: no hundredth lies nearer to it
RoundedFusion(c, signals) ==
  LET den   == Power(20, Len(signals))
      exact == 100 * (den - ComplementProduct(signals, Len(signals)))
  IN  /\ c \in 0..100
      /\ 2 * (c * den - exact) <= den
      /\ 2 * (exact - c * den) <= den

\* C13: the confidence classify returns is 1 - product(1 - w_i) over the
\* weights of exactly the signals returned in the same result, rounded to
\* two decimals, and 0 when there are no signals; is_ai_agent is true
\* exactly when that confidence is at least 0.5.
C13_ConfidenceIsFusedSignals ==
  classified.result # NoResult =>
    /\ RoundedFusion(classified.result.confidence, classified.result.signals)
    /\ classified.result.signals = <<>> => classified.result.confidence = 0
    /\ classified.result.is_ai_agent <=> classified.result.confidence >= 50

\* A result of three or more signals, classified as an agent
C13_Witness ==
  /\ classified.result # NoResult
  /\ Len(classified.result.signals) >= 3
  /\ classified.result.is_ai_agent
  /\ classified.result.confidence < 100

\* The signals of the result that come from the known-client table
TableSignals(result) ==
  SelectSeq(result.signals,
            LAMBDA g : /\ g.type = "user_agent"
                       /\ \E n \in DOMAIN AI_AGENT_UA_PATTERNS :
                            AI_AGENT_UA_PATTERNS[n].name = g.indicator)

\* The largest weight among the table entries given
StrongestWeight(matches) ==
  CHOOSE w \in {AI_AGENT_UA_PATTERNS[n].weight : n \in matches} :
    \A n \in matches : AI_AGENT_UA_PATTERNS[n].weight <= w

\* C14: for every user-agent string classify emits at most one user_agent
\* signal from the known-client table, and its weight is the largest weight
\* among all table entries whose pattern matches the user agent.
C14_UserAgentSignalIsStrongestMatch ==
  classified.result # NoResult =>
    LET table == TableSignals(classified.result)
    IN  /\ Len(table) <= 1
        /\ Len(table) = 1 =>
             table[1].weight = StrongestWeight(classified.opts.userAgent.matches)

\* The last n elements of s, all of s when it has fewer
LastN(s, n) == SubSeq(s, Len(s) - Min(Len(s), n) + 1, Len(s))

\* C16: after any sequence of recordTiming and classify calls each
\* identity's timing history holds at most maxHistoryPerIp (50) samples and
\* equals the most recent samples recorded for that identity, in arrival
\* order; samples of one identity never appear in the history of another.
C16_HistoryIsMostRecentSamples ==
  \A ip \in IPs :
    LET found == MapGet(timingHistory, ip)
    IN  IF recorded[ip] = <<>>
          THEN found = undefined
          ELSE /\ found # undefined
               /\ Len(found.samples) <= maxHistoryPerIp
               /\ found.samples = LastN(recorded[ip], maxHistoryPerIp)
               /\ \A other \in IPs \ {ip} :
                    Range(found.samples) \cap Range(recorded[other]) = {}

\* One identity has had a sample pushed out of its full history, by a
\* classify call, while another identity has a history too
C16_Witness ==
  /\ lastOp.op = "classify"
  /\ classified.opts.responseTime # <<>>
  /\ Len(recorded[classified.opts.ip]) > maxHistoryPerIp
  /\ \E other \in IPs \ {classified.opts.ip} : recorded[other] # <<>>

\* The sum of the first n samples, and of their squares
RECURSIVE Total(_, _)
Total(h, n) == IF n = 0 THEN 0 ELSE Total(h, n - 1) + h[n]

RECURSIVE TotalOfSquares(_, _)
TotalOfSquares(h, n) == IF n = 0 THEN 0 ELSE TotalOfSquares(h, n - 1) + h[n] * h[n]

\* The mean of the samples lies in [lo, hi]
MeanWithin(h, lo, hi) ==
  /\ h # <<>>
  /\ lo * Len(h) <= Total(h, Len(h))
  /\ Total(h, Len(h)) <= hi * Len(h)

\* The standard deviation of the samples is below limit: the mean of the
\* squares less the square of the mean is below limit^2
StdDevBelow(h, limit) ==
  Len(h) * TotalOfSquares(h, Len(h)) - Total(h, Len(h)) * Total(h, Len(h))
    < limit * limit * Len(h) * Len(h)

\* The samples of the identity of the last classify call, and the timing
\* signals of its result
ClassifiedSamples ==
  LET found == MapGet(timingHistory, classified.opts.ip)
  IN  IF found = undefined THEN <<>> ELSE found.samples

TimingSignalsReturned ==
  SelectSeq(classified.result.signals, LAMBDA g : g.type = "timing")

\* The one timing signal the window rule gives for the samples: weight 0.6
\* with a standard deviation below 500 ms and at least 5 samples, weight
\* 0.3 otherwise
WindowRule(h, timing) ==
  /\ Len(timing) = 1
  /\ timing[1].weight = IF StdDevBelow(h, 500) /\ Len(h) >= 5 THEN 12 ELSE 6

\* C17: whenever the mean of an identity's recorded response times lies in
\* [800, 3000] ms, classify emits exactly one timing signal, of weight 0.6
\* if also stddev < 500 ms and at least 5 samples exist and of weight 0.3
\* otherwise, for any sample count; with the mean outside the window it
\* emits no timing signal.
C17_TimingSignalAnySampleCount ==
  lastOp.op = "classify" =>
    IF MeanWithin(ClassifiedSamples, 800, 3000)
      THEN WindowRule(ClassifiedSamples, TimingSignalsReturned)
      ELSE TimingSignalsReturned = <<>>

\* C17, amended: the rule applies from 3 recorded samples on; with fewer
\* than 3 samples classify emits no timing signal, whatever their mean.
C17_TimingSignalFromThreeSamples ==
  lastOp.op = "classify" =>
    IF Len(ClassifiedSamples) >= 3 /\ MeanWithin(ClassifiedSamples, 800, 3000)
      THEN WindowRule(ClassifiedSamples, TimingSignalsReturned)
      ELSE TimingSignalsReturned = <<>>

\* A classify call on five samples whose mean is in the window and whose
\* standard deviation is not below 500 ms
C17_Witness ==
  /\ lastOp.op = "classify"
  /\ Len(ClassifiedSamples) >= 5
  /\ MeanWithin(ClassifiedSamples, 800, 3000)
  /\ ~StdDevBelow(ClassifiedSamples, 500)
  /\ Len(TimingSignalsReturned) = 1

\* The configured maximum of tracked identities (default 10000), scaled so
\* that the addresses of the model exceed it by one
MaxTracked == Cardinality(IPs) - 1

\* C15: the number of identities tracked in the classifier's timing
\* history never grows beyond the configured maximum across the connections
\* and chat messages the running service handles, and cleanup(maxEntries)
\* on a map over the limit leaves at most maxEntries identities.
C15_TrackedIdentitiesBounded ==
  /\ Len(timingHistory) <= MaxTracked
  /\ Len(cleanup(timingHistory, MaxTracked)) <= MaxTracked

\* ------------------------------------------------------------------------
\* Injection detection properties
\* ------------------------------------------------------------------------

SamePair(a, b) == a.type = b.type /\ a.subtype = b.subtype

\* C18: for every input detect returns at most one finding per
\* (type, subtype) pair, and the finding kept for a pair has the highest
\* confidence among all rule matches and heuristic findings produced for
\* that pair on that input.
C18_OneFindingPerPairHighestKept ==
  detection.result # NoDetection =>
    LET attacks  == detection.result.attacks
        detected == detection.result.detected
    IN  /\ \A i, j \in DOMAIN attacks : SamePair(attacks[i], attacks[j]) => i = j
        /\ \A i \in DOMAIN attacks :
             /\ \E n \in DOMAIN detected : detected[n] = attacks[i]
             /\ \A n \in DOMAIN detected :
                  SamePair(detected[n], attacks[i]) =>
                    detected[n].confidence <= attacks[i].confidence

\* Two rule matches and a heuristic finding for one pair, the later of the
\* rule matches of higher confidence than the earlier
C18_Witness ==
  /\ detection.result # NoDetection
  /\ \E i, j, k \in DOMAIN detection.result.detected :
       /\ i < j /\ j < k
       /\ SamePair(detection.result.detected[i], detection.result.detected[j])
       /\ SamePair(detection.result.detected[j], detection.result.detected[k])
       /\ detection.result.detected[i].confidence < detection.result.detected[j].confidence
  /\ Len(detection.result.attacks) < Len(detection.result.detected)

\* C19: base64 decoding during detection is bounded to one decode level:
\* detect run on the text decoded from a base64 run of the input does not
\* decode the base64 runs inside that text, for any nesting depth.
C19_OneDecodeLevel ==
  detection.result # NoDetection => detection.result.decodes <= 1

\* C20: after construction the detector always has a usable rule set: a
\* rule whose pattern fails to compile is skipped without affecting the
\* other rules, and if the external rule files yield zero rules that
\* compile the built-in default rule set is loaded and compiled instead.
C20_UsableRuleSet ==
  /\ compiledPatterns # {}
  /\ \A i \in DOMAIN patterns : patterns[i].compiles <=> patterns[i].name \in compiledPatterns
  /\ (\A i \in DOMAIN ruleFiles : ~ruleFiles[i].compiles) =>
       /\ patterns = BuiltInPatterns
       /\ compiledPatterns = {BuiltInPatterns[i].name : i \in DOMAIN BuiltInPatterns}

\* ------------------------------------------------------------------------
\* Canary token properties
\* ------------------------------------------------------------------------
\* C21: whatever its type, a value generate has minted is recognised by
\* isCanaryToken.
C21_MintedValueIsCanary ==
  \A g \in DOMAIN generators :
    generators[g].isCanary # NotCalled => generators[g].isCanary = Returned(TRUE)

\* C22: extractCanaryId applied to a minted value returns the id of the
\* token generate returned.
C22_ExtractedIdIsTokenId ==
  \A g \in DOMAIN generators :
    generators[g].extracted # NotCalled
      => generators[g].extracted = Returned(generators[g].token.id)

\* C24: two generators constructed with different instance ids never mint
\* equal values, whatever the type and the random outcomes.
C24_InstancesNeverCollide ==
  \A g, h \in DOMAIN generators :
    /\ generators[g].instanceId # generators[h].instanceId
    /\ generators[g].token # NoToken
    /\ generators[h].token # NoToken
    => generators[g].token.value # generators[h].token.value

\* C23: with reporting enabled, a WebSocket or HTTP chat message whose text
\* holds a minted value queues a canary report, and the canary id of that
\* report is the id recoverable from the value.
C23_LeakedValueReported ==
  [][lastOp'.op \in {"message", "chatRoute"} /\ enabled
       => /\ Len(reportQueue') = Len(reportQueue) + 1
          /\ reportQueue'[Len(reportQueue')].id = extractCanaryId(LeakedValue)]_vars

\* ------------------------------------------------------------------------
\* Deceptive response properties
\* ------------------------------------------------------------------------
\* The message mentions weather, news or market prices: it holds one of the
\* keywords of generateKnowledgeResponse as a word.
MentionsLiveFacts(message) ==
  matchesAny(message, WeatherKeywords \o NewsKeywords \o PriceKeywords)

Declines == {"decline_weather", "decline_news", "decline_prices"}

\* C25: a question-like message without detected attacks that mentions
\* weather, news or market prices is answered by one of the 'no real-time
\* access' replies, whatever else it holds and whatever variants are picked.
C25_LiveFactQuestionsDeclined ==
  /\ agentCall.reply # NoReply
  /\ agentCall.ask.attacks = <<>>
  /\ questionLike(toLowerCase(agentCall.ask.message))
  /\ MentionsLiveFacts(agentCall.ask.message)
  => agentCall.reply.family \in Declines

\* ------------------------------------------------------------------------
\* Age sweep properties
\* ------------------------------------------------------------------------
\* The age of a session of the registry
Age(e) == now - e.startedAt
TooOld(id) == \E i \in DOMAIN sessions : sessions[i].id = id /\ Age(sessions[i]) > maxSessionAgeMs

\* The sessions a sweep has to keep, as they are
NotTooOld == SelectSeq(sessions, LAMBDA e : Age(e) <= maxSessionAgeMs)

\* C26: a session older than maxSessionAgeMs is removed by the next sweep,
\* which comes whether or not the session's connection goes on receiving
\* messages; a sweep removes no session of age at most maxSessionAgeMs and
\* leaves the sessions it keeps as they were.
C26_SweepRemovesExactlyTheOld ==
  /\ [][lastOp'.op = "cleanupOldSessions" => sessions' = NotTooOld]_vars
  /\ \A id \in 1..MaxSweepConns : TooOld(id) ~> ~(id \in Ids(sessions))

\* A sweep has just removed the session of an open connection that had
\* received a message, and kept a session that had reached the age exactly
C26_Witness ==
  /\ lastOp.op = "cleanupOldSessions"
  /\ \E c \in DOMAIN conns :
       /\ conns[c].state = "open"
       /\ conns[c].session.messageCount > 0
       /\ c \notin Ids(sessions)
  /\ \E i \in DOMAIN sessions : Age(sessions[i]) = maxSessionAgeMs

\* ------------------------------------------------------------------------
\* S3 buffer properties
\* ------------------------------------------------------------------------
\* The entries written so far that no upload has delivered
Undelivered == (1..s3Writes) \ delivered

\* C27: a failed batch goes back to the front of the buffer: the buffer
\* holds its entries in the order of their write calls, none of them twice,
\* and once no upload is in flight it holds every undelivered entry.
C27_BufferInWriteOrder ==
  /\ \A i, j \in DOMAIN buffer : i < j => buffer[i] < buffer[j]
  /\ uploads = {} => Range(buffer) = Undelivered

\* ------------------------------------------------------------------------
\* Canary report delivery properties
\* ------------------------------------------------------------------------
\* C28: whatever the interleaving of report calls, timer flushes, priority
\* flushes and close, no report is in two delivery batches: no report is
\* handed to sendToCallback twice.
C28_ReportBatchedOnce ==
  \A i, j \in DOMAIN batched : i # j => batched[i] # batched[j]

\* close has just sent a batch while the batch of an earlier flush is still
\* on its way
C28_Witness ==
  /\ lastOp.op = "reporterClose"
  /\ Cardinality(reportFlights) >= 2
  /\ Len(batched) >= 2

\* ------------------------------------------------------------------------
\* Log order properties
\* ------------------------------------------------------------------------
\* C29: entries are passed to backend.write in the order of the logging
\* calls that made them, with or without enrichment and with flushes
\* overlapping: no entry is passed after an entry of a later call.
C29_BackendWritesInCallOrder == ~handed.late

\* ------------------------------------------------------------------------
\* Connection and registry properties
\* ------------------------------------------------------------------------
\* C30: every connection that was admitted and has not closed has its
\* session in the registry: getSession of its session id returns the
\* session object the gateway's handlers mutate, after any connections,
\* messages and sweeps.
C30_OpenConnectionHasSession ==
  \A c \in DOMAIN conns :
    conns[c].state = "open" =>
      /\ c \in Ids(sessions)
      /\ getSession(c) = conns[c].session
====
